---- MODULE Spec2Model ----
(***************************************************************************)
(* A model of StorageMaterializedView (src/Storages/                       *)
(* StorageMaterializedView.cpp): construction with creation and rollback   *)
(* of the inner tables, the catalog dependency edge, alter, rename,        *)
(* startup / shutdown / drop, and the scratch-table refresh cycle.         *)
(***************************************************************************)
EXTENDS Integers, Sequences, FiniteSets, TLC

(* ------------------------------ bounds -------------------------------- *)

\* UUIDs a CREATE query may name in TO INNER UUID are 1..MaxUUID.
MaxUUID == 3
\* Longest header of a view or of a plan.
MaxColumns == 2
\* Most plans and sinks alive at once.
MaxQueryObjects == 2
\* Longest TO INNER UUID list of a CREATE query.
MaxInnerUUIDs == 2
\* Rows a table may hold are 1..MaxRows.
MaxRows == 2
\* max_materialized_views_count_for_table ranges over 0..MaxViewsSetting.
MaxViewsSetting == 1
\* Refresh periods a strategy may carry are 1..MaxPeriod.
MaxPeriod == 2
\* Longest command list of one ALTER.
MaxAlterCommands == 1
\* Alters whose persistence step throws, per run.
MaxFailedAlters == 1
\* Longest command list handed to checkAlterIsPossible where alters are studied
\* on their own.
MaxCheckedCommands == 2
\* Ports of a client configuration exceed the range of UInt16 by up to
\* MaxWraps times 2^16.
MaxWraps == 1

(* --------------------------- storage ids ------------------------------ *)

\* UUIDHelpers::Nil
Nil == 0

StorageID(db, table) == [database_name |-> db, table_name |-> table, uuid |-> Nil]

\* StorageID::createEmpty()
EmptyID == StorageID("", "")

hasUUID(id) == id.uuid # Nil

\* StorageID::empty(), also operator bool
IsEmptyID(id) == id.table_name = "" /\ ~hasUUID(id)

\* The view's UUID when its database gives tables UUIDs.
ViewUUID == 1

\* Identities the view is constructed under or renamed to.
ViewDatabases == {"a", "b"}
ViewNames == {"v", "t"}
ViewIDs ==
    {id \in [database_name : ViewDatabases, table_name : ViewNames, uuid : {Nil, ViewUUID}] :
        id.database_name = "b" => (hasUUID(id) /\ id.table_name = "v")}

\* A table named in a TO clause.
ExtTableID == StorageID("a", "t")

\* Tables a SELECT reads from.
SrcA == StorageID("a", "srcA")
SrcB == StorageID("a", "srcB")
Sources == {SrcA, SrcB}

\* Another materialized view of the server, reading from SrcA.
OtherViewID == StorageID("a", "o")

Rows == 1..MaxRows

\* generateInnerTableName, with the string alternative a plausible slip gives.
generateInnerTableName_NoScratchSuffix(view_id, scratch) ==
    IF hasUUID(view_id)
    THEN ".inner" \o "_id." \o ToString(view_id.uuid)
    ELSE ".inner" \o "." \o view_id.table_name

generateInnerTableName(view_id, scratch) ==
    LET res1 == IF scratch THEN ".inner" \o "_scratch" ELSE ".inner"
    IN  IF hasUUID(view_id)
        THEN res1 \o "_id." \o ToString(view_id.uuid)
        ELSE res1 \o "." \o view_id.table_name

(* ------------------------------ catalog ------------------------------- *)

\* The physical tables the model follows: the table of the TO clause, the
\* inner target and the scratch.
Roles == {"ext", "target", "scratch"}
NoTable == [database_name |-> "", table_name |-> "", uuid |-> -1]

\* DatabaseCatalog lookup of a StorageID: by UUID when the id has one, else
\* by database and table name.
Matches(entry, id) ==
    /\ entry # NoTable
    /\ IF hasUUID(id)
       THEN entry.uuid = id.uuid
       ELSE entry.database_name = id.database_name /\ entry.table_name = id.table_name

\* tryGetTable: the role of the table the id resolves to, "none" if none.
tryGetTable(tables, id) ==
    IF \E r \in Roles : Matches(tables[r], id)
    THEN CHOOSE r \in Roles : Matches(tables[r], id)
    ELSE "none"

\* Whether (database, table) names a table of the catalog.
NameTaken(tables, db, name) ==
    \E r \in Roles : tables[r] # NoTable /\ tables[r].database_name = db
                                          /\ tables[r].table_name = name

\* getDependentViews(source).size()
DependentViewsCount(deps, source) == Cardinality({e \in deps : e[1] = source})

\* addViewDependency / removeViewDependency / updateViewDependency
addViewDependency(deps, source, view) == deps \cup {<<source, view>>}
removeViewDependency(deps, source, view) == deps \ {<<source, view>>}
updateViewDependency(deps, old_source, old_view, new_source, new_view) ==
    LET removed == IF IsEmptyID(old_source) THEN deps
                   ELSE removeViewDependency(deps, old_source, old_view)
    IN  IF IsEmptyID(new_source) THEN removed
        ELSE addViewDependency(removed, new_source, new_view)

(* --------------------------- CREATE query ----------------------------- *)

NoStorage == [present |-> FALSE, engine |-> "", partition_by |-> FALSE]
Storage(e, p) == [present |-> TRUE, engine |-> e, partition_by |-> p]

\* ENGINE clauses: none, a clause without ENGINE, and four engine names.
StorageClauses ==
    { NoStorage, Storage("", FALSE), Storage("MergeTree", FALSE),
      Storage("MergeTree", TRUE), Storage("ReplicatedMergeTree", FALSE),
      Storage("Log", FALSE), Storage("Bogus", FALSE) }

\* StorageFactory::tryGetFeatures
EngineRegistered(e) == e \in {"MergeTree", "ReplicatedMergeTree", "Log"}
supports_moving_data_between_tables(e) == e \in {"MergeTree", "ReplicatedMergeTree"}
supports_replication(e) == e = "ReplicatedMergeTree"

NoRefresh == [present |-> FALSE, append |-> FALSE, period |-> 0]
RefreshStrategies == [present : {TRUE}, append : BOOLEAN, period : 1..MaxPeriod]

\* TO INNER UUID lists: no UUID twice.
InnerUUIDLists ==
    UNION { {s \in [1..n -> 1..MaxUUID] : \A i, j \in 1..n : i # j => s[i] # s[j]}
            : n \in 0..MaxInnerUUIDs }

CreateQueries ==
    [ select : BOOLEAN,
      select_table_id : Sources \cup {EmptyID},
      to_table_id : {EmptyID, ExtTableID, StorageID("a", "v")},
      to_inner_uuid : InnerUUIDLists,
      storage : StorageClauses,
      columns : {"cols"},
      refresh_strategy : {NoRefresh} \cup {s \in RefreshStrategies : s.period = 1},
      is_create_empty : BOOLEAN ]

\* Fields a CREATE query cannot carry, or that the constructor does not read
\* for this query, are left at one value.
WellFormedQuery(q) ==
    /\ ~q.select => /\ q.select_table_id = EmptyID /\ q.to_table_id = EmptyID
                    /\ q.to_inner_uuid = << >> /\ q.storage = NoStorage
                    /\ q.refresh_strategy = NoRefresh
    /\ ~IsEmptyID(q.to_table_id) => q.storage = NoStorage
    /\ ~q.refresh_strategy.present => ~q.is_create_empty

\* ASTCreateQuery::needsInnerTargetTable / needsScratchTable / needsInnerTables
needsInnerTargetTable(q) == IsEmptyID(q.to_table_id)
needsScratchTable(q) == q.refresh_strategy.present /\ ~q.refresh_strategy.append
needsInnerTables(q) ==
    (IF needsInnerTargetTable(q) THEN 1 ELSE 0) + (IF needsScratchTable(q) THEN 1 ELSE 0)

\* A create-query of an inner table or of the table of the TO clause.
CreateQuery(kind, storage, columns) ==
    [present |-> TRUE, kind |-> kind, storage |-> storage, columns |-> columns]
NoCreateQuery == [present |-> FALSE, kind |-> "table", storage |-> NoStorage, columns |-> ""]

\* What db->getCreateTableQuery can return for the table of the TO clause.
ExtCreateQueries ==
    { CreateQuery(k, s, "colsT") : k \in {"table"}, s \in StorageClauses \ {NoStorage} }
    \cup { CreateQuery("dictionary", NoStorage, "colsT"),
           CreateQuery("view", NoStorage, "colsT"),
           CreateQuery("table", NoStorage, "colsT") }

(* ------------------------------- state -------------------------------- *)

VARIABLES
    phase,                  \* "none", "failed", "constructed", "started", "shutdown", "dropped"
    storage_id,             \* IStorage::getStorageID() of the view
    has_inner_target_table,
    has_scratch_table,
    target_table_id,
    scratch_table_id,
    scratch_table_is_known_to_be_empty,
    refresher,              \* the RefreshTask the view owns, NoRefresher if none
    refresh_on_start,
    metadata,               \* in-memory metadata: select source, refresh strategy, comment
    cat_tables,             \* catalog: role -> StorageID of the table, or NoTable
    table_rows,             \* role -> rows the table holds
    cat_deps,               \* catalog: set of <<source table, view>> dependency edges
    cat_metadata,           \* metadata of the view as persisted by the database
    max_views,              \* server setting max_materialized_views_count_for_table
    refresh_state,          \* position of the refresh task in its cycle
    insert_query,           \* destination of the insert query prepareRefresh returned
    failed_alters,          \* how many alters failed to persist so far
    last_op,                \* the handler that ran last, with its outcome
    last_error,             \* the error that left the last handler, "" if none
    last_args,              \* the arguments the last handler was called with
    trace,                  \* what the last handler asked of its collaborators, in order
    inner_table_ids_mutex,  \* the thread that holds the mutex, "free" if none
    rename_thread,          \* position and locals of a thread inside renameInMemory
    reader_thread,          \* position and locals of a thread inside a getter of the ids
    query_objects           \* the live plans and sinks read and write returned, in order

vars == << phase, storage_id, has_inner_target_table, has_scratch_table, target_table_id,
           scratch_table_id, scratch_table_is_known_to_be_empty, refresher, refresh_on_start,
           metadata, cat_tables, table_rows, cat_deps, cat_metadata, max_views,
           refresh_state, insert_query, failed_alters, last_op, last_error, last_args, trace,
           inner_table_ids_mutex, rename_thread, reader_thread, query_objects >>

\* The threads around the inner ids, which the handlers that run as one step
\* leave alone.
thread_vars == << inner_table_ids_mutex, rename_thread, reader_thread >>

\* One request of a handler to a collaborator (a DDL, a lock, a log line).
Ev(kind, id) ==
    [kind |-> kind, id |-> id, engine |-> "", partition_by |-> FALSE, columns |-> "",
     sync |-> FALSE, threw |-> FALSE, to |-> EmptyID, may_lock_ddl_guard |-> "unset"]

\* Characters of the names of the model, in the order of their codes.
CharOrder == "-.0123456789_abcdefghijklmnopqrstuvwxyz"
CharCode(c) == CHOOSE i \in 1..Len(CharOrder) : SubSeq(CharOrder, i, i) = c

\* operator< of String: the lexicographical order of the codes.
RECURSIVE StringLess(_, _)
StringLess(lhs, rhs) ==
    IF rhs = "" THEN FALSE
    ELSE IF lhs = "" THEN TRUE
    ELSE LET l == CharCode(SubSeq(lhs, 1, 1))
             r == CharCode(SubSeq(rhs, 1, 1))
         IN  IF l # r THEN l < r
             ELSE StringLess(SubSeq(lhs, 2, Len(lhs)), SubSeq(rhs, 2, Len(rhs)))

\* operator< of QualifiedTableName: by database, then by table.
QualifiedNameLess(lhs, rhs) ==
    \/ StringLess(lhs.database_name, rhs.database_name)
    \/ /\ lhs.database_name = rhs.database_name
       /\ StringLess(lhs.table_name, rhs.table_name)

\* Lines 250 and 371: the flag the drop of an inner table is given.
may_lock_ddl_guard_Never(view_id, inner_table_id) == "false"

may_lock_ddl_guard(view_id, inner_table_id) ==
    IF QualifiedNameLess(view_id, inner_table_id) THEN "true" ELSE "false"

\* Lines 251-253 and 373-375: the DROP of the inner table of a view.
DropQuery(view_id, inner_table_id) ==
    [Ev("drop", inner_table_id) EXCEPT
        !.may_lock_ddl_guard = may_lock_ddl_guard(view_id, inner_table_id)]

NoArgs == [none |-> TRUE]

\* No thread inside renameInMemory, none inside a getter of the inner ids.
NoRename == [pc |-> "idle"]
NoReader == [pc |-> "idle"]

NoRefresher == [exists |-> FALSE, state |-> "none", append |-> FALSE, period |-> 0,
                name |-> EmptyID, runs |-> 0]

\* RefreshTask::create
RefreshTaskCreate(view_id, strategy) ==
    [exists |-> TRUE, state |-> "created", append |-> strategy.append,
     period |-> strategy.period, name |-> view_id, runs |-> 0]

Metadata(select_table_id, refresh) ==
    [select_table_id |-> select_table_id, refresh |-> refresh, comment |-> ""]

NoMetadata == Metadata(EmptyID, NoRefresh)

(* ---------------------------- constructor ----------------------------- *)

\* Lines 105-114: the limit on the views that depend on the SELECT's table.
TooManyViews_Off(select_table_id, deps, max) == FALSE

TooManyViews(select_table_id, deps, max) ==
    /\ ~IsEmptyID(select_table_id)
    /\ max # 0
    /\ DependentViewsCount(deps, select_table_id) >= max

\* Lines 124-128.
point_to_itself_NameOnly(q, table_id_) ==
    /\ q.to_table_id.database_name = table_id_.database_name
    /\ q.to_table_id.table_name = table_id_.table_name

point_to_itself(q, table_id_) ==
    LET point_to_itself_by_uuid ==
            \E i \in 1..Len(q.to_inner_uuid) : q.to_inner_uuid[i] = table_id_.uuid
        point_to_itself_by_name ==
            /\ q.to_table_id.database_name = table_id_.database_name
            /\ q.to_table_id.table_name = table_id_.table_name
    IN  point_to_itself_by_uuid \/ point_to_itself_by_name

\* Lines 140-143.
InnerUUIDCountMismatch_Never(q) == FALSE

InnerUUIDCountMismatch(q) ==
    q.to_inner_uuid # << >> /\ Len(q.to_inner_uuid) # needsInnerTables(q)

\* Lines 132-136 and 145-146.
InitialTargetTableId(q, mv_storage_id) ==
    LET base == IF needsInnerTargetTable(q)
                THEN StorageID(mv_storage_id.database_name,
                               generateInnerTableName(mv_storage_id, FALSE))
                ELSE q.to_table_id
    IN  IF q.to_inner_uuid # << >> /\ needsInnerTargetTable(q)
        THEN [base EXCEPT !.uuid = q.to_inner_uuid[1]]
        ELSE base

\* Lines 137-138 and 147-148.
InitialScratchTableId(q, mv_storage_id) ==
    LET base == IF needsScratchTable(q)
                THEN StorageID(mv_storage_id.database_name,
                               generateInnerTableName(mv_storage_id, TRUE))
                ELSE EmptyID
    IN  IF q.to_inner_uuid # << >> /\ needsScratchTable(q)
        THEN [base EXCEPT !.uuid = q.to_inner_uuid[Len(q.to_inner_uuid)]]
        ELSE base

\* Lines 157-166: the create-query of the inner target.
InnerTargetCreateQuery(q, attach_) ==
    IF ~attach_ /\ needsInnerTargetTable(q)
    THEN CreateQuery("table", q.storage, q.columns)
    ELSE NoCreateQuery

\* Lines 168-180: the create-query of the scratch, cloned from the target's.
ScratchCreateQuery_FromView(q, attach_, ext_query) ==
    IF ~attach_ /\ needsScratchTable(q)
    THEN CreateQuery("table", Storage("MergeTree", FALSE), q.columns)
    ELSE NoCreateQuery

ScratchCreateQuery(q, attach_, ext_query) ==
    IF ~attach_ /\ needsScratchTable(q)
    THEN IF InnerTargetCreateQuery(q, attach_).present
         THEN InnerTargetCreateQuery(q, attach_)
         ELSE ext_query
    ELSE NoCreateQuery

\* Lines 183-208: the error that rejects a scratch create-query, "" if none.
ScratchEngineError_MovingIsBadArguments(cq) ==
    IF cq.kind # "table" THEN "BAD_ARGUMENTS"
    ELSE IF ~cq.storage.present \/ cq.storage.engine = "" THEN "LOGICAL_ERROR"
    ELSE IF ~EngineRegistered(cq.storage.engine) THEN "UNKNOWN_STORAGE"
    ELSE IF ~supports_moving_data_between_tables(cq.storage.engine) THEN "BAD_ARGUMENTS"
    ELSE IF cq.storage.partition_by THEN "NOT_IMPLEMENTED"
    ELSE IF supports_replication(cq.storage.engine) THEN "NOT_IMPLEMENTED"
    ELSE ""

ScratchEngineError(cq) ==
    IF cq.kind # "table" THEN "BAD_ARGUMENTS"
    ELSE IF ~cq.storage.present \/ cq.storage.engine = "" THEN "LOGICAL_ERROR"
    ELSE IF ~EngineRegistered(cq.storage.engine) THEN "UNKNOWN_STORAGE"
    ELSE IF ~supports_moving_data_between_tables(cq.storage.engine) THEN "NOT_IMPLEMENTED"
    ELSE IF cq.storage.partition_by THEN "NOT_IMPLEMENTED"
    ELSE IF supports_replication(cq.storage.engine) THEN "NOT_IMPLEMENTED"
    ELSE ""

\* UUIDs the catalog gives to tables created without one.
FreshUUID(role) == IF role = "target" THEN MaxUUID + 1 ELSE MaxUUID + 2

\* Line 234: the StorageID the catalog reports for a table just created under id;
\* a database that gave the view a UUID gives one to the inner table too.
CreatedStorageID(id, role, mv_storage_id) ==
    IF hasUUID(id) \/ ~hasUUID(mv_storage_id) THEN id
    ELSE [id EXCEPT !.uuid = FreshUUID(role)]

\* Lines 221-236, execute_inner_create, on the state st of the try block:
\* st.error is the exception in flight, st.created is created_inner_tables.
execute_inner_create_NoRecord(st, create_query, role, id, mv_storage_id, fails) ==
    IF st.error # "" \/ ~create_query.present THEN st
    ELSE IF fails
    THEN [st EXCEPT !.error = "CREATE_FAILED",
                    !.trace = Append(@, [Ev("create", id) EXCEPT !.threw = TRUE,
                                            !.engine = create_query.storage.engine,
                                            !.partition_by = create_query.storage.partition_by,
                                            !.columns = create_query.columns])]
    ELSE LET new_id == CreatedStorageID(id, role, mv_storage_id)
         IN  [st EXCEPT !.tables[role] = new_id,
                        !.ids[role] = new_id,
                        !.trace = Append(@, [Ev("create", id) EXCEPT
                                                !.to = new_id,
                                                !.engine = create_query.storage.engine,
                                                !.partition_by = create_query.storage.partition_by,
                                                !.columns = create_query.columns])]

execute_inner_create(st, create_query, role, id, mv_storage_id, fails) ==
    IF st.error # "" \/ ~create_query.present THEN st
    ELSE IF fails
    THEN [st EXCEPT !.error = "CREATE_FAILED",
                    !.trace = Append(@, [Ev("create", id) EXCEPT !.threw = TRUE,
                                            !.engine = create_query.storage.engine,
                                            !.partition_by = create_query.storage.partition_by,
                                            !.columns = create_query.columns])]
    ELSE LET new_id == CreatedStorageID(id, role, mv_storage_id)
         IN  [st EXCEPT !.tables[role] = new_id,
                        !.ids[role] = new_id,
                        !.created = Append(@, role),
                        !.trace = Append(@, [Ev("create", id) EXCEPT
                                                !.to = new_id,
                                                !.engine = create_query.storage.engine,
                                                !.partition_by = create_query.storage.partition_by,
                                                !.columns = create_query.columns])]

\* Lines 246-259: the rollback drops of created_inner_tables[i..], each in its
\* own try block; failing_drops are the tables whose drop throws.
RECURSIVE RollbackDrops_Propagating(_, _, _)
RollbackDrops_Propagating(st, i, failing_drops) ==
    IF i > Len(st.created) THEN st
    ELSE LET role == st.created[i]
             id == st.ids[role]
         IN  IF role \in failing_drops
             THEN [st EXCEPT !.error = "DROP_FAILED",
                             !.trace = Append(@, [DropQuery(st.view, id) EXCEPT !.threw = TRUE])]
             ELSE RollbackDrops_Propagating(
                      [st EXCEPT !.tables[role] = NoTable,
                                 !.trace = Append(@, DropQuery(st.view, id))],
                      i + 1, failing_drops)

RECURSIVE RollbackDrops_SkipAll(_, _, _)
RollbackDrops_SkipAll(st, i, failing_drops) == st

RECURSIVE RollbackDrops(_, _, _)
RollbackDrops(st, i, failing_drops) ==
    IF i > Len(st.created) THEN st
    ELSE LET role == st.created[i]
             id == st.ids[role]
         IN  IF role \in failing_drops
             THEN RollbackDrops(
                      [st EXCEPT !.trace = Append(Append(@,
                                      [DropQuery(st.view, id) EXCEPT !.threw = TRUE]),
                                      Ev("log", id))],
                      i + 1, failing_drops)
             ELSE RollbackDrops(
                      [st EXCEPT !.tables[role] = NoTable,
                                 !.trace = Append(@, DropQuery(st.view, id))],
                      i + 1, failing_drops)

\* Lines 219-261: the two creates, and the rollback when one throws.
\* fail_create is the role whose create throws, "none" if none does.
CreateInnerTables(tables, q, attach_, ext_query, mv_storage_id, fail_create, failing_drops) ==
    LET st0 == [error |-> "", tables |-> tables, created |-> << >>, trace |-> << >>,
                view |-> mv_storage_id,
                ids |-> [target |-> InitialTargetTableId(q, mv_storage_id),
                         scratch |-> InitialScratchTableId(q, mv_storage_id)]]
        st1 == execute_inner_create(st0, InnerTargetCreateQuery(q, attach_), "target",
                                    st0.ids["target"], mv_storage_id, fail_create = "target")
        st2 == execute_inner_create(st1, ScratchCreateQuery(q, attach_, ext_query), "scratch",
                                    st1.ids["scratch"], mv_storage_id, fail_create = "scratch")
    IN  IF st2.error = "" THEN st2 ELSE RollbackDrops(st2, 1, failing_drops)

\* The error of lines 93-209, "" when the constructor reaches line 212.
ValidationError(table_id_, q, attach_, ext_query, tables, deps, max) ==
    IF ~q.select THEN "INCORRECT_QUERY"
    ELSE IF needsInnerTargetTable(q) /\ ~q.storage.present THEN "INCORRECT_QUERY"
    ELSE IF TooManyViews(q.select_table_id, deps, max) THEN "TOO_MANY_MATERIALIZED_VIEWS"
    ELSE IF point_to_itself(q, table_id_) THEN "BAD_ARGUMENTS"
    ELSE IF InnerUUIDCountMismatch(q) THEN "INCORRECT_QUERY"
    ELSE IF ~attach_ /\ needsScratchTable(q)
    THEN IF ~needsInnerTargetTable(q)
            /\ tryGetTable(tables, InitialTargetTableId(q, table_id_)) = "none"
         THEN "UNKNOWN_TABLE"
         ELSE ScratchEngineError(ScratchCreateQuery(q, attach_, ext_query))
    ELSE ""

\* The inner tables the catalog holds when a view is re-attached: those of
\* `present`, under the identities the constructor binds.
AttachedTables(tables, q, mv_storage_id, present) ==
    [r \in Roles |->
        IF r = "target" /\ needsInnerTargetTable(q) /\ "target" \in present
        THEN CreatedStorageID(InitialTargetTableId(q, mv_storage_id), r, mv_storage_id)
        ELSE IF r = "scratch" /\ needsScratchTable(q) /\ "scratch" \in present
        THEN CreatedStorageID(InitialScratchTableId(q, mv_storage_id), r, mv_storage_id)
        ELSE tables[r]]

InnerRoles(q) ==
    (IF needsInnerTargetTable(q) THEN {"target"} ELSE {})
    \cup (IF needsScratchTable(q) THEN {"scratch"} ELSE {})

\* Lines 155, 167 and 181: the flag is set where the creation of the scratch
\* is prepared, so not when the view is attached.
InitialKnownEmpty_AlsoOnAttach(q, attach_) == needsScratchTable(q)

InitialKnownEmpty(q, attach_) == ~attach_ /\ needsScratchTable(q)

\* Lines 212-217: whether startup is to run a refresh at once.
RefreshOnStart_AlsoOnAttach(q, attach_) ==
    q.refresh_strategy.present /\ ~q.is_create_empty

RefreshOnStart(q, attach_) ==
    q.refresh_strategy.present /\ ~attach_ /\ ~q.is_create_empty

\* Lines 81-262: StorageMaterializedView::StorageMaterializedView.
Construct(table_id_, q, attach_, ext_query, fail_create, failing_drops, present, rows) ==
    /\ phase = "none"
    /\ LET tables0 == IF attach_ THEN AttachedTables(cat_tables, q, table_id_, present)
                      ELSE cat_tables
           error == ValidationError(table_id_, q, attach_, ext_query, tables0, cat_deps, max_views)
           st == CreateInnerTables(tables0, q, attach_, ext_query, table_id_,
                                   fail_create, failing_drops)
       IN  /\ last_op' = "construct"
           /\ UNCHANGED << thread_vars, query_objects >>
           /\ last_args' = [table_id_ |-> table_id_, query |-> q, attach_ |-> attach_,
                            ext_query |-> ext_query, tables |-> tables0]
           /\ UNCHANGED << cat_deps, max_views, refresh_state, insert_query, failed_alters >>
           /\ IF error # ""
              THEN /\ phase' = "failed"
                   /\ last_error' = error
                   /\ trace' = << >>
                   /\ cat_tables' = tables0
                   /\ table_rows' = [r \in Roles |-> IF attach_ THEN rows[r] ELSE table_rows[r]]
                   /\ UNCHANGED << storage_id, has_inner_target_table, has_scratch_table,
                                   target_table_id, scratch_table_id,
                                   scratch_table_is_known_to_be_empty, refresher,
                                   refresh_on_start, metadata, cat_metadata >>
              ELSE /\ phase' = IF st.error = "" THEN "constructed" ELSE "failed"
                   /\ last_error' = st.error
                   /\ trace' = st.trace
                   /\ cat_tables' = st.tables
                   /\ table_rows' = [r \in Roles |-> IF attach_ THEN rows[r] ELSE table_rows[r]]
                   /\ storage_id' = table_id_
                   /\ has_inner_target_table' = needsInnerTargetTable(q)
                   /\ has_scratch_table' = needsScratchTable(q)
                   /\ target_table_id' = st.ids["target"]
                   /\ scratch_table_id' = st.ids["scratch"]
                   /\ scratch_table_is_known_to_be_empty' = InitialKnownEmpty(q, attach_)
                   /\ refresher' = IF q.refresh_strategy.present
                                   THEN RefreshTaskCreate(table_id_, q.refresh_strategy)
                                   ELSE NoRefresher
                   /\ refresh_on_start' = RefreshOnStart(q, attach_)
                   /\ metadata' = Metadata(q.select_table_id, q.refresh_strategy)
                   /\ cat_metadata' = Metadata(q.select_table_id, q.refresh_strategy)

\* The constructor on every query of `queries`; inputs that a call does not
\* read are fixed. `leftover` are the row sets an inner table may hold when the
\* view is re-attached.
ConstructAs(names, queries, leftover) ==
    /\ phase = "none"
    /\ \E name \in names, q \in queries, attach_ \in BOOLEAN, uuid \in {Nil, ViewUUID} :
         LET table_id_ == [StorageID("a", name) EXCEPT !.uuid = uuid]
             reads_ext == ~attach_ /\ needsScratchTable(q) /\ ~needsInnerTargetTable(q)
             valid == ValidationError(table_id_, q, attach_, NoCreateQuery, cat_tables,
                                      cat_deps, max_views) \in {"", "UNKNOWN_TABLE", "BAD_ARGUMENTS",
                                                               "LOGICAL_ERROR"}
         IN  \E ext_query \in (IF reads_ext THEN ExtCreateQueries ELSE {NoCreateQuery}),
                fail_create \in (IF attach_ \/ ~valid THEN {"none"} ELSE {"none"} \cup InnerRoles(q)),
                present \in (IF attach_ /\ valid THEN SUBSET InnerRoles(q) ELSE {{}}) :
               \E failing_drops \in (IF fail_create = "scratch" THEN SUBSET {"target"} ELSE {{}}),
                  target_rows \in (IF "target" \in present THEN leftover ELSE {{}}),
                  scratch_rows \in (IF "scratch" \in present THEN leftover ELSE {{}}) :
                  Construct(table_id_, q, attach_, ext_query, fail_create, failing_drops, present,
                            [r \in Roles |-> IF r = "target" THEN target_rows
                                             ELSE IF r = "scratch" THEN scratch_rows
                                             ELSE table_rows[r]])

\* The constructor of the view a.v.
ConstructFrom(queries, leftover) == ConstructAs({"v"}, queries, leftover)

TableRows0 == [r \in Roles |-> {}]

Init ==
    /\ phase = "none"
    /\ storage_id = EmptyID
    /\ has_inner_target_table = FALSE
    /\ has_scratch_table = FALSE
    /\ target_table_id = EmptyID
    /\ scratch_table_id = EmptyID
    /\ scratch_table_is_known_to_be_empty = FALSE
    /\ refresher = NoRefresher
    /\ refresh_on_start = FALSE
    /\ metadata = NoMetadata
    /\ cat_tables \in { [r \in Roles |-> IF r = "ext" THEN e ELSE NoTable]
                        : e \in {NoTable, ExtTableID} }
    /\ table_rows = TableRows0
    /\ cat_deps = {<<SrcA, OtherViewID>>}
    /\ cat_metadata = NoMetadata
    /\ max_views \in 0..MaxViewsSetting
    /\ refresh_state = "IDLE"
    /\ insert_query = EmptyID
    /\ failed_alters = 0
    /\ last_op = "none"
    /\ last_error = ""
    /\ last_args = NoArgs
    /\ trace = << >>
    /\ inner_table_ids_mutex = "free"
    /\ rename_thread = NoRename
    /\ reader_thread = NoReader
    /\ query_objects = << >>

(* ------------------------ startup, shutdown, drop --------------------- *)

\* Lines 596-610: StorageMaterializedView::startup.
startup_NoDependency(deps, select_table_id, view_id) == deps

startup_AddDependency(deps, select_table_id, view_id) ==
    IF ~IsEmptyID(select_table_id)
    THEN addViewDependency(deps, select_table_id, view_id)
    ELSE deps

Startup ==
    /\ phase = "constructed"
    /\ phase' = "started"
    /\ cat_deps' = startup_AddDependency(cat_deps, metadata.select_table_id, storage_id)
    /\ refresher' = IF refresher.exists
                    THEN [refresher EXCEPT !.state = "running",
                                           !.runs = IF refresh_on_start THEN 1 ELSE 0]
                    ELSE refresher
    /\ trace' = (IF ~IsEmptyID(metadata.select_table_id)
                 THEN << [Ev("addViewDependency", metadata.select_table_id) EXCEPT
                             !.to = storage_id] >>
                 ELSE << >>)
                \o (IF ~refresher.exists THEN << >>
                    ELSE IF refresh_on_start
                    THEN << Ev("initializeAndStart", storage_id), Ev("run", storage_id) >>
                    ELSE << Ev("initializeAndStart", storage_id) >>)
    /\ last_op' = "startup"
    /\ UNCHANGED << thread_vars, query_objects >>
    /\ last_error' = ""
    /\ last_args' = NoArgs
    /\ UNCHANGED << storage_id, has_inner_target_table, has_scratch_table, target_table_id,
                    scratch_table_id, scratch_table_is_known_to_be_empty, refresh_on_start,
                    metadata, cat_tables, table_rows, cat_metadata, max_views,
                    refresh_state, insert_query, failed_alters >>

\* Lines 612-622: StorageMaterializedView::shutdown.
shutdown_RemoveDependency(deps, select_table_id, view_id) ==
    IF ~IsEmptyID(select_table_id)
    THEN removeViewDependency(deps, select_table_id, view_id)
    ELSE deps

Shutdown ==
    /\ phase = "started"
    /\ phase' = "shutdown"
    /\ refresher' = IF refresher.exists THEN [refresher EXCEPT !.state = "shutdown"]
                    ELSE refresher
    /\ cat_deps' = shutdown_RemoveDependency(cat_deps, metadata.select_table_id, storage_id)
    /\ trace' = << >>
    /\ last_op' = "shutdown"
    /\ UNCHANGED << thread_vars, query_objects >>
    /\ last_error' = ""
    /\ last_args' = NoArgs
    /\ UNCHANGED << storage_id, has_inner_target_table, has_scratch_table, target_table_id,
                    scratch_table_id, scratch_table_is_known_to_be_empty, refresh_on_start,
                    metadata, cat_tables, table_rows, cat_metadata, max_views,
                    refresh_state, insert_query, failed_alters >>

\* The drop of one inner table, were the has_inner_target_table /
\* has_scratch_table tests of lines 378-381 left out.
dropInnerTable_IgnoringHasTable(st, has_table, inner_table_id, sync, fail_drop) ==
    IF st.error # "" THEN st
    ELSE LET role == tryGetTable(st.tables, inner_table_id)
         IN  IF role = "none" THEN st
             ELSE IF role = fail_drop
             THEN [st EXCEPT !.error = "DROP_FAILED",
                             !.trace = Append(@, [DropQuery(storage_id, inner_table_id) EXCEPT
                                                     !.sync = sync, !.threw = TRUE])]
             ELSE [st EXCEPT !.tables[role] = NoTable,
                             !.rows[role] = {},
                             !.trace = Append(@, [DropQuery(storage_id, inner_table_id) EXCEPT
                                                     !.sync = sync])]

\* Lines 362-382: dropInnerTableIfAny; st.error is the exception in flight,
\* fail_drop the role of the table whose drop throws.
dropInnerTable(st, has_table, inner_table_id, sync, fail_drop) ==
    IF st.error # "" \/ ~has_table THEN st
    ELSE LET role == tryGetTable(st.tables, inner_table_id)
         IN  IF role = "none" THEN st
             ELSE IF role = fail_drop
             THEN [st EXCEPT !.error = "DROP_FAILED",
                             !.trace = Append(@, [DropQuery(storage_id, inner_table_id) EXCEPT
                                                     !.sync = sync, !.threw = TRUE])]
             ELSE [st EXCEPT !.tables[role] = NoTable,
                             !.rows[role] = {},
                             !.trace = Append(@, [DropQuery(storage_id, inner_table_id) EXCEPT
                                                     !.sync = sync])]

dropInnerTableIfAny(tables, rows, sync, fail_drop) ==
    LET st0 == [error |-> "", tables |-> tables, rows |-> rows, trace |-> << >>]
        st1 == dropInnerTable(st0, has_inner_target_table, target_table_id, sync, fail_drop)
    IN  dropInnerTable(st1, has_scratch_table, scratch_table_id, sync, fail_drop)

\* Lines 343-360: StorageMaterializedView::drop.
Drop(fail_drop) ==
    /\ phase \in {"started", "shutdown"}
    /\ LET st == dropInnerTableIfAny(cat_tables, table_rows, FALSE, fail_drop)
       IN  /\ phase' = "dropped"
           /\ cat_deps' = IF ~IsEmptyID(metadata.select_table_id)
                          THEN removeViewDependency(cat_deps, metadata.select_table_id,
                                                    storage_id)
                          ELSE cat_deps
           /\ cat_tables' = st.tables
           /\ table_rows' = st.rows
           /\ trace' = st.trace
           /\ last_error' = st.error
    /\ last_op' = "drop"
    /\ UNCHANGED << thread_vars, query_objects >>
    /\ last_args' = NoArgs
    /\ UNCHANGED << storage_id, has_inner_target_table, has_scratch_table, target_table_id,
                    scratch_table_id, scratch_table_is_known_to_be_empty, refresher,
                    refresh_on_start, metadata, cat_metadata, max_views,
                    refresh_state, insert_query, failed_alters >>

DropAny ==
    \E fail_drop \in {"none"} \cup {r \in {"target", "scratch"} : cat_tables[r] # NoTable} :
        Drop(fail_drop)

(* ---------------------------- refresh cycle --------------------------- *)

\* Rows of the table an id resolves to, {} when it resolves to none.
RowsOf(tables, rows, id) ==
    IF tryGetTable(tables, id) = "none" THEN {} ELSE rows[tryGetTable(tables, id)]

\* Line 426: the destination of the insert query.
InsertDestination_Target(has_scratch, scratch_id, target_id) == target_id

InsertDestination(has_scratch, scratch_id, target_id) ==
    IF has_scratch THEN scratch_id ELSE target_id

\* Line 428: whether prepareRefresh truncates the scratch table.
MustTruncate_Never(has_scratch, known_empty) == FALSE
MustTruncate_Always(has_scratch, known_empty) == has_scratch

MustTruncate(has_scratch, known_empty) == has_scratch /\ ~known_empty

\* Lines 424-457: StorageMaterializedView::prepareRefresh. lock_fails: the
\* exclusive lock on the scratch is not acquired within lock_acquire_timeout.
PrepareRefresh(lock_fails) ==
    /\ phase = "started"
    /\ refresher.exists
    /\ refresh_state \in {"IDLE", "LOADED"}
    /\ LET target == InsertDestination(has_scratch_table, scratch_table_id, target_table_id)
           truncates == MustTruncate(has_scratch_table, scratch_table_is_known_to_be_empty)
           scratch == tryGetTable(cat_tables, scratch_table_id)
       IN  /\ last_op' = "prepareRefresh"
           /\ UNCHANGED << thread_vars, query_objects >>
           /\ last_args' = [known_empty |-> scratch_table_is_known_to_be_empty,
                            after |-> last_op]
           /\ IF truncates /\ scratch = "none"
              THEN /\ last_error' = "UNKNOWN_TABLE"
                   /\ trace' = << >>
                   /\ UNCHANGED << table_rows, scratch_table_is_known_to_be_empty,
                                   refresh_state, insert_query >>
              ELSE IF truncates /\ lock_fails
              THEN /\ last_error' = "DEADLOCK_AVOIDED"
                   /\ trace' = << [Ev("lockExclusively", scratch_table_id) EXCEPT
                                      !.threw = TRUE] >>
                   /\ UNCHANGED << table_rows, scratch_table_is_known_to_be_empty,
                                   refresh_state, insert_query >>
              ELSE /\ last_error' = ""
                   /\ table_rows' = IF truncates THEN [table_rows EXCEPT ![scratch] = {}]
                                    ELSE table_rows
                   /\ trace' = (IF truncates
                                THEN << Ev("lockExclusively", scratch_table_id),
                                        Ev("truncate", scratch_table_id) >>
                                ELSE << >>)
                               \o << Ev("insert_query", target) >>
                   /\ scratch_table_is_known_to_be_empty' = FALSE
                   /\ insert_query' = target
                   /\ refresh_state' = "LOADING"
    /\ UNCHANGED << phase, storage_id, has_inner_target_table, has_scratch_table,
                    target_table_id, scratch_table_id, refresher, refresh_on_start, metadata,
                    cat_tables, cat_deps, cat_metadata, max_views, failed_alters >>

PrepareRefreshAny ==
    \E lock_fails \in (IF MustTruncate(has_scratch_table, scratch_table_is_known_to_be_empty)
                          /\ tryGetTable(cat_tables, scratch_table_id) # "none"
                       THEN BOOLEAN ELSE {FALSE}) :
        PrepareRefresh(lock_fails)

\* The refresh task executes the insert query: it writes `written` to the
\* query's destination and then succeeds or fails.
ExecuteInsert(written, ok) ==
    /\ phase = "started"
    /\ refresh_state = "LOADING"
    /\ LET dest == tryGetTable(cat_tables, insert_query)
       IN  IF dest = "none"
           THEN /\ ~ok /\ written = {}
                /\ UNCHANGED table_rows
           ELSE table_rows' = [table_rows EXCEPT ![dest] = @ \cup written]
    /\ refresh_state' = IF ok THEN "LOADED" ELSE "IDLE"
    /\ last_op' = IF ok THEN "insert_ok" ELSE "insert_failed"
    /\ UNCHANGED << thread_vars, query_objects >>
    /\ last_error' = IF ok THEN "" ELSE "INSERT_FAILED"
    /\ last_args' = NoArgs
    /\ trace' = << >>
    /\ UNCHANGED << phase, storage_id, has_inner_target_table, has_scratch_table,
                    target_table_id, scratch_table_id, scratch_table_is_known_to_be_empty,
                    refresher, refresh_on_start, metadata, cat_tables, cat_deps,
                    cat_metadata, max_views, insert_query, failed_alters >>

ExecuteInsertAny ==
    \E written \in SUBSET Rows, ok \in BOOLEAN : ExecuteInsert(written, ok)

\* IStorage::transferAllDataFrom(source, remove_from_source, replace_at_destination):
\* the rows of the two tables after the move.
transferAllDataFrom(rows, dest, source) ==
    [rows EXCEPT ![dest] = rows[source], ![source] = {}]

\* Line 466 against the flag a slip would leave.
FlagAfterTransfer_Unchanged(known_empty) == known_empty

FlagAfterTransfer(known_empty) == TRUE

\* Lines 459-467: StorageMaterializedView::transferRefreshedData. move_fails:
\* the target's transferAllDataFrom throws.
TransferRefreshedData(move_fails) ==
    /\ phase = "started"
    /\ refresh_state = "LOADED"
    /\ LET dest == tryGetTable(cat_tables, target_table_id)
           source == tryGetTable(cat_tables, scratch_table_id)
       IN  IF ~has_scratch_table
           THEN /\ ~move_fails
                /\ last_op' = "transfer_ok"
                /\ UNCHANGED << thread_vars, query_objects >>
                /\ last_error' = ""
                /\ trace' = << >>
                /\ refresh_state' = "IDLE"
                /\ UNCHANGED << table_rows, scratch_table_is_known_to_be_empty >>
           ELSE IF dest = "none" \/ source = "none"
           THEN /\ ~move_fails
                /\ last_op' = "transfer_failed"
                /\ UNCHANGED << thread_vars, query_objects >>
                /\ last_error' = "UNKNOWN_TABLE"
                /\ trace' = << >>
                /\ UNCHANGED << table_rows, scratch_table_is_known_to_be_empty,
                                refresh_state >>
           ELSE IF move_fails
           THEN /\ last_op' = "transfer_failed"
                /\ UNCHANGED << thread_vars, query_objects >>
                /\ last_error' = "TRANSFER_FAILED"
                /\ trace' = << [Ev("transferAllDataFrom", target_table_id) EXCEPT
                                   !.threw = TRUE, !.to = scratch_table_id] >>
                /\ UNCHANGED << table_rows, scratch_table_is_known_to_be_empty,
                                refresh_state >>
           ELSE /\ last_op' = "transfer_ok"
                /\ UNCHANGED << thread_vars, query_objects >>
                /\ last_error' = ""
                /\ trace' = << [Ev("transferAllDataFrom", target_table_id) EXCEPT
                                   !.to = scratch_table_id] >>
                /\ table_rows' = transferAllDataFrom(table_rows, dest, source)
                /\ scratch_table_is_known_to_be_empty' =
                       FlagAfterTransfer(scratch_table_is_known_to_be_empty)
                /\ refresh_state' = "IDLE"
    /\ last_args' = NoArgs
    /\ UNCHANGED << phase, storage_id, has_inner_target_table, has_scratch_table,
                    target_table_id, scratch_table_id, refresher, refresh_on_start, metadata,
                    cat_tables, cat_deps, cat_metadata, max_views, insert_query, failed_alters >>

TransferRefreshedDataAny == \E move_fails \in BOOLEAN : TransferRefreshedData(move_fails)

(* -------------------------------- alter ------------------------------- *)

AlterCommand(type) ==
    [type |-> type, select_table_id |-> EmptyID, refresh |-> NoRefresh, comment |-> ""]

AlterCommandSet ==
    { [AlterCommand("COMMENT_TABLE") EXCEPT !.comment = "c"], AlterCommand("ADD_COLUMN") }
    \cup { [AlterCommand("MODIFY_QUERY") EXCEPT !.select_table_id = src]
           : src \in Sources \cup {EmptyID} }
    \cup { [AlterCommand("MODIFY_REFRESH") EXCEPT !.refresh = r] : r \in RefreshStrategies }

AlterCommandLists ==
    UNION { [1..n -> AlterCommandSet] : n \in 1..MaxAlterCommands }

\* One command of each kind the check tells apart.
CheckedCommandSet ==
    { c \in AlterCommandSet :
        /\ c.type = "MODIFY_QUERY" => c.select_table_id = SrcB
        /\ c.type = "MODIFY_REFRESH" => c.refresh.period = MaxPeriod }

CheckedCommandLists ==
    UNION { [1..n -> CheckedCommandSet] : n \in 1..MaxCheckedCommands }

\* Lines 494-513: the error of checkAlterIsPossible on commands[i..], "" if none.
checkAlterIsPossible_AcceptsAll(commands, i) == ""

RECURSIVE checkAlterIsPossible_NoAppendCheck(_, _)
checkAlterIsPossible_NoAppendCheck(commands, i) ==
    IF i > Len(commands) THEN ""
    ELSE LET command == commands[i]
         IN  IF command.type \in {"COMMENT_TABLE", "MODIFY_QUERY"}
             THEN checkAlterIsPossible_NoAppendCheck(commands, i + 1)
             ELSE IF command.type = "MODIFY_REFRESH"
             THEN IF ~refresher.exists THEN "NOT_IMPLEMENTED"
                  ELSE checkAlterIsPossible_NoAppendCheck(commands, i + 1)
             ELSE "NOT_IMPLEMENTED"

RECURSIVE checkAlterIsPossible(_, _)
checkAlterIsPossible(commands, i) ==
    IF i > Len(commands) THEN ""
    ELSE LET command == commands[i]
         IN  IF command.type = "COMMENT_TABLE" THEN checkAlterIsPossible(commands, i + 1)
             ELSE IF command.type = "MODIFY_QUERY" THEN checkAlterIsPossible(commands, i + 1)
             ELSE IF command.type = "MODIFY_REFRESH"
             THEN IF ~refresher.exists THEN "NOT_IMPLEMENTED"
                  ELSE IF command.refresh.append # ~has_scratch_table THEN "NOT_IMPLEMENTED"
                  ELSE checkAlterIsPossible(commands, i + 1)
             ELSE "NOT_IMPLEMENTED"

\* Line 477: AlterCommands::apply of commands[i..] to the metadata.
RECURSIVE ApplyAlterCommands(_, _, _)
ApplyAlterCommands(commands, i, md) ==
    IF i > Len(commands) THEN md
    ELSE LET command == commands[i]
             next == IF command.type = "COMMENT_TABLE"
                     THEN [md EXCEPT !.comment = command.comment]
                     ELSE IF command.type = "MODIFY_QUERY"
                     THEN [md EXCEPT !.select_table_id = command.select_table_id]
                     ELSE IF command.type = "MODIFY_REFRESH"
                     THEN [md EXCEPT !.refresh = command.refresh]
                     ELSE md
         IN  ApplyAlterCommands(commands, i + 1, next)

\* Lines 480-483: the dependency edges after alter's update.
alter_UpdateDependency_Skip(deps, old_metadata, new_metadata, table_id) == deps

alter_UpdateDependency(deps, old_metadata, new_metadata, table_id) ==
    updateViewDependency(deps, old_metadata.select_table_id, table_id,
                         new_metadata.select_table_id, table_id)

\* Lines 486-487: the in-memory metadata after alterTable and
\* setInMemoryMetadata; alterTable throws when persist_fails.
alter_InMemoryMetadata_SetFirst(old_metadata, new_metadata, persist_fails) == new_metadata

alter_InMemoryMetadata(old_metadata, new_metadata, persist_fails) ==
    IF persist_fails THEN old_metadata ELSE new_metadata

\* Lines 469-491: StorageMaterializedView::alter, called with commands that
\* checkAlterIsPossible accepted. persist_fails: alterTable of the database throws.
Alter(commands, persist_fails) ==
    /\ phase = "started"
    /\ checkAlterIsPossible(commands, 1) = ""
    /\ persist_fails => failed_alters < MaxFailedAlters
    /\ LET table_id == storage_id
           old_metadata == metadata
           new_metadata == ApplyAlterCommands(commands, 1, metadata)
       IN  /\ cat_deps' = alter_UpdateDependency(cat_deps, old_metadata, new_metadata, table_id)
           /\ last_args' = NoArgs
           /\ IF persist_fails
              THEN /\ last_error' = "ALTER_FAILED"
                   /\ failed_alters' = failed_alters + 1
                   /\ metadata' = alter_InMemoryMetadata(old_metadata, new_metadata, TRUE)
                   /\ UNCHANGED << cat_metadata, refresher >>
              ELSE /\ last_error' = ""
                   /\ cat_metadata' = new_metadata
                   /\ metadata' = alter_InMemoryMetadata(old_metadata, new_metadata, FALSE)
                   /\ refresher' = IF refresher.exists
                                   THEN [refresher EXCEPT
                                            !.append = new_metadata.refresh.append,
                                            !.period = new_metadata.refresh.period]
                                   ELSE refresher
                   /\ UNCHANGED failed_alters
    /\ last_op' = "alter"
    /\ UNCHANGED << thread_vars, query_objects >>
    /\ trace' = << >>
    /\ UNCHANGED << phase, storage_id, has_inner_target_table, has_scratch_table,
                    target_table_id, scratch_table_id, scratch_table_is_known_to_be_empty,
                    refresh_on_start, cat_tables, table_rows, max_views, refresh_state,
                    insert_query >>

AlterAny ==
    /\ phase = "started"
    /\ \E commands \in AlterCommandLists, persist_fails \in BOOLEAN :
           Alter(commands, persist_fails)

\* Lines 494-513: StorageMaterializedView::checkAlterIsPossible, a const method
\* that returns or throws.
CheckAlterIsPossible(commands) ==
    /\ phase = "started"
    /\ last_op' = "checkAlterIsPossible"
    /\ UNCHANGED << thread_vars, query_objects >>
    /\ last_error' = checkAlterIsPossible(commands, 1)
    /\ last_args' = [commands |-> commands]
    /\ trace' = << >>
    /\ UNCHANGED << phase, storage_id, has_inner_target_table, has_scratch_table,
                    target_table_id, scratch_table_id, scratch_table_is_known_to_be_empty,
                    refresher, refresh_on_start, metadata, cat_tables, table_rows, cat_deps,
                    cat_metadata, max_views, refresh_state, insert_query, failed_alters >>

CheckAlterIsPossibleAny ==
    /\ phase = "started"
    /\ \E commands \in CheckedCommandLists : CheckAlterIsPossible(commands)

\* An ALTER query on the view: the check of its commands, then, when the check
\* accepted them, alter with the same commands.
AlterQueryCheck ==
    /\ phase = "started"
    /\ last_op # "checkAlterIsPossible"
    /\ CheckAlterIsPossibleAny

AlterQueryApply ==
    /\ phase = "started"
    /\ last_op = "checkAlterIsPossible" /\ last_error = ""
    /\ \E persist_fails \in BOOLEAN : Alter(last_args.commands, persist_fails)

(* ------------------------------- rename ------------------------------- *)

\* Line 547.
rename_inner_tables(old_table_id, new_table_id) ==
    \/ new_table_id.database_name # old_table_id.database_name
    \/ ~hasUUID(old_table_id)
    \/ ~hasUUID(new_table_id)

\* Lines 554 and 561: whether the rename query gets an element for the table.
RenamesTarget(tables) ==
    has_inner_target_table /\ tryGetTable(tables, target_table_id) # "none"
RenamesScratch(tables) == has_scratch_table

\* Lines 586-590: the dependency edges after the rename.
rename_UpdateDependency_Skip(deps, select_table_id, old_table_id, new_table_id) == deps

rename_UpdateDependency(deps, select_table_id, old_table_id, new_table_id) ==
    updateViewDependency(deps, select_table_id, old_table_id, select_table_id, new_table_id)

\* Lines 569 and 586: the view's own id after the rename; an exception of the
\* rename query leaves renameInMemory before IStorage::renameInMemory.
RenamedStorageID_Regardless(old_table_id, new_table_id, threw) == new_table_id

RenamedStorageID(old_table_id, new_table_id, threw) ==
    IF threw THEN old_table_id ELSE new_table_id

\* The catalog after InterpreterRenameQuery moved the table of `role` to
\* (database, name).
RenamedTable(tables, role, database, name) ==
    IF role = "none" THEN tables
    ELSE [tables EXCEPT ![role] = [@ EXCEPT !.database_name = database, !.table_name = name]]

\* Lines 542-594: StorageMaterializedView::renameInMemory. ddl_fails: the
\* rename query of the inner tables throws.
RenameInMemory(new_table_id, ddl_fails) ==
    /\ phase = "started"
    /\ ~NameTaken(cat_tables, new_table_id.database_name, new_table_id.table_name)
    /\ << new_table_id.database_name, new_table_id.table_name >>
         # << storage_id.database_name, storage_id.table_name >>
    /\ LET old_table_id == storage_id
           renames == rename_inner_tables(old_table_id, new_table_id)
           with_target == renames /\ RenamesTarget(cat_tables)
           with_scratch == renames /\ RenamesScratch(cat_tables)
           new_target_table_name == generateInnerTableName(new_table_id, FALSE)
           new_scratch_table_name == generateInnerTableName(new_table_id, TRUE)
           target_role == tryGetTable(cat_tables, target_table_id)
           scratch_role == tryGetTable(cat_tables, scratch_table_id)
           missing == with_scratch /\ scratch_role = "none"
           rename_trace ==
               (IF with_target
                THEN << [Ev("rename", target_table_id) EXCEPT
                            !.to = StorageID(new_table_id.database_name,
                                             new_target_table_name)] >>
                ELSE << >>)
               \o (IF with_scratch
                   THEN << [Ev("rename", scratch_table_id) EXCEPT
                               !.to = StorageID(new_table_id.database_name,
                                                new_scratch_table_name)] >>
                   ELSE << >>)
           steps_after ==
               (IF renames THEN << Ev("installInnerIds", old_table_id) >> ELSE << >>)
               \o << [Ev("renameInMemory", old_table_id) EXCEPT !.to = new_table_id],
                      [Ev("updateViewDependency", metadata.select_table_id) EXCEPT
                          !.to = new_table_id] >>
               \o (IF refresher.exists
                   THEN << Ev("renameRefresher", new_table_id) >> ELSE << >>)
       IN  /\ last_args' = [old_table_id |-> old_table_id, new_table_id |-> new_table_id]
           /\ IF renames /\ (missing \/ ddl_fails)
              THEN /\ last_error' = IF missing THEN "UNKNOWN_TABLE" ELSE "RENAME_FAILED"
                   /\ trace' = rename_trace
                   /\ storage_id' = RenamedStorageID(old_table_id, new_table_id, TRUE)
                   /\ UNCHANGED << target_table_id, scratch_table_id, cat_tables,
                                   cat_deps, refresher >>
              ELSE /\ last_error' = ""
                   /\ trace' = (IF renames THEN rename_trace ELSE << >>) \o steps_after
                   /\ cat_tables' =
                        RenamedTable(
                            RenamedTable(cat_tables,
                                         IF with_target THEN target_role ELSE "none",
                                         new_table_id.database_name, new_target_table_name),
                            IF with_scratch THEN scratch_role ELSE "none",
                            new_table_id.database_name, new_scratch_table_name)
                   /\ target_table_id' =
                        IF with_target
                        THEN [target_table_id EXCEPT
                                 !.database_name = new_table_id.database_name,
                                 !.table_name = new_target_table_name]
                        ELSE target_table_id
                   /\ scratch_table_id' =
                        IF with_scratch
                        THEN [scratch_table_id EXCEPT
                                 !.database_name = new_table_id.database_name,
                                 !.table_name = new_scratch_table_name]
                        ELSE scratch_table_id
                   /\ storage_id' = RenamedStorageID(old_table_id, new_table_id, FALSE)
                   /\ cat_deps' = rename_UpdateDependency(cat_deps, metadata.select_table_id,
                                                          old_table_id, new_table_id)
                   /\ refresher' = IF refresher.exists
                                   THEN [refresher EXCEPT !.name = new_table_id]
                                   ELSE refresher
    /\ last_op' = "renameInMemory"
    /\ UNCHANGED << thread_vars, query_objects >>
    /\ UNCHANGED << phase, has_inner_target_table, has_scratch_table,
                    scratch_table_is_known_to_be_empty, refresh_on_start, metadata,
                    table_rows, cat_metadata, max_views, refresh_state, insert_query,
                    failed_alters >>

RenameInMemoryAny ==
    /\ phase = "started"
    /\ \E new_table_id \in ViewIDs, ddl_fails \in BOOLEAN :
           /\ ddl_fails => rename_inner_tables(storage_id, new_table_id)
           /\ RenameInMemory(new_table_id, ddl_fails)

(* ------------------------- forwarded operations ----------------------- *)

\* The operations that need an inner target (checkStatementCanBeForwarded).
ForwardedStatements ==
    {"optimize", "mutate", "alterPartition", "checkAlterPartitionIsPossible",
     "checkMutationIsPossible"}

\* Lines 390-395: the error of checkStatementCanBeForwarded, "" if none.
checkStatementCanBeForwarded_Never(has_inner) == ""

checkStatementCanBeForwarded(has_inner) ==
    IF ~has_inner THEN "INCORRECT_QUERY" ELSE ""

\* Lines 397-411 and 515-540: checkStatementCanBeForwarded, then the same
\* operation of getTargetTable(), which throws when the id does not resolve.
ForwardStatement(op) ==
    /\ phase = "started"
    /\ LET error == checkStatementCanBeForwarded(has_inner_target_table)
           target == tryGetTable(cat_tables, target_table_id)
       IN  /\ last_error' = IF error # "" THEN error
                            ELSE IF target = "none" THEN "UNKNOWN_TABLE" ELSE ""
           /\ trace' = IF error = "" /\ target # "none"
                       THEN << [Ev(op, target_table_id) EXCEPT !.to = cat_tables[target]] >>
                       ELSE << >>
    /\ last_op' = op
    /\ UNCHANGED << thread_vars, query_objects >>
    /\ last_args' = NoArgs
    /\ UNCHANGED << phase, storage_id, has_inner_target_table, has_scratch_table,
                    target_table_id, scratch_table_id, scratch_table_is_known_to_be_empty,
                    refresher, refresh_on_start, metadata, cat_tables, table_rows, cat_deps,
                    cat_metadata, max_views, refresh_state, insert_query, failed_alters >>

ForwardStatementAny ==
    /\ phase = "started"
    /\ \E op \in ForwardedStatements : ForwardStatement(op)

\* Blocks: the columns of a header, in order, with names that differ.
ColumnNames == {"a", "b", "c"}
ColumnTypes == {"Int", "String"}
Column(name, type) == [name |-> name, type |-> type]
Headers ==
    {h \in UNION { [1..n -> [name : ColumnNames, type : ColumnTypes]] : n \in 0..MaxColumns } :
        \A i, j \in 1..Len(h) : h[i].name = h[j].name => i = j}

\* Block::has
BlockHas(header, name) == \E i \in 1..Len(header) : header[i].name = name

\* Lines 69-79: removeNonCommonColumns, the target_header it leaves.
removeNonCommonColumns_KeepAll(src_header, target_header) == target_header

removeNonCommonColumns(src_header, target_header) ==
    SelectSeq(target_header, LAMBDA column : BlockHas(src_header, column.name))

\* blocksHaveEqualStructure: as many columns, with the same name and type at
\* every position.
blocksHaveEqualStructure(lhs, rhs) ==
    /\ Len(lhs) = Len(rhs)
    /\ \A i \in 1..Len(lhs) : lhs[i].name = rhs[i].name /\ lhs[i].type = rhs[i].type

\* Lines 301-323: the two headers after the pruning, and whether the
\* converting step is added.
ReconcileHeaders(mv_header, target_header) ==
    LET pruned_target == removeNonCommonColumns(mv_header, target_header)
        pruned_mv == removeNonCommonColumns(pruned_target, mv_header)
    IN  [mv_header |-> pruned_mv, target_header |-> pruned_target,
         converting |-> ~blocksHaveEqualStructure(pruned_mv, pruned_target)]

\* A plan or a sink: the table it works on, whether it holds the storage and
\* whether it holds the table's shared lock.
QueryObject(kind, table, holds_storage, holds_lock) ==
    [kind |-> kind, table |-> table, holds_storage |-> holds_storage,
     holds_lock |-> holds_lock]

\* Lines 322 and 338: whether the lock is given to the plan, to the sink.
LockIsAttached_Never(kind, plan_initialized) == FALSE

LockIsAttached(kind, plan_initialized) ==
    IF kind = "plan" THEN plan_initialized ELSE TRUE

\* Lines 285 and 333: whether the target is asked before the lock is there.
CallsTargetAfterLock_Regardless(lock_fails) == TRUE

CallsTargetAfterLock(lock_fails) == ~lock_fails

\* Lines 275-328: read. lock_fails: the shared lock is not acquired within
\* lock_acquire_timeout; plan_initialized: the target's read gave a plan.
Read(lock_fails, plan_initialized, mv_header, target_header) ==
    /\ phase = "started"
    /\ Len(query_objects) < MaxQueryObjects
    /\ LET target == tryGetTable(cat_tables, target_table_id)
           headers == ReconcileHeaders(mv_header, target_header)
           lock == IF lock_fails
                   THEN << [Ev("lockForShare", target_table_id) EXCEPT !.threw = TRUE] >>
                   ELSE << Ev("lockForShare", target_table_id) >>
           attach == LockIsAttached("plan", plan_initialized)
       IN  /\ last_args' = [lock_fails |-> lock_fails, plan_initialized |-> plan_initialized,
                            mv_header |-> mv_header, target_header |-> target_header,
                            headers |-> headers]
           /\ IF target = "none"
              THEN /\ last_error' = "UNKNOWN_TABLE"
                   /\ trace' = << >>
                   /\ UNCHANGED query_objects
              ELSE IF ~CallsTargetAfterLock(lock_fails)
              THEN /\ last_error' = "DEADLOCK_AVOIDED"
                   /\ trace' = lock
                   /\ UNCHANGED query_objects
              ELSE /\ last_error' = ""
                   /\ trace' = lock
                               \o << [Ev("read", target_table_id) EXCEPT
                                         !.to = cat_tables[target]] >>
                               \o (IF plan_initialized /\ headers.converting
                                   THEN << Ev("addStep", target_table_id) >> ELSE << >>)
                               \o (IF plan_initialized
                                   THEN << Ev("addStorageHolder", target_table_id) >>
                                   ELSE << >>)
                               \o (IF attach THEN << Ev("addTableLock", target_table_id) >>
                                   ELSE << >>)
                   /\ query_objects' =
                        Append(query_objects,
                               QueryObject("plan", target, plan_initialized, attach))
    /\ last_op' = "read"
    /\ UNCHANGED thread_vars
    /\ UNCHANGED << phase, storage_id, has_inner_target_table, has_scratch_table,
                    target_table_id, scratch_table_id, scratch_table_is_known_to_be_empty,
                    refresher, refresh_on_start, metadata, cat_tables, table_rows, cat_deps,
                    cat_metadata, max_views, refresh_state, insert_query, failed_alters >>

\* The headers the reads of the view meet: equal ones, a target with a column
\* the view lacks and another type, a view with a column the target lacks.
ReadHeaderPairs ==
    { << << Column("a", "Int") >>, << Column("a", "Int") >> >>,
      << << Column("a", "Int") >>, << Column("a", "String"), Column("b", "Int") >> >>,
      << << Column("a", "Int"), Column("b", "Int") >>, << Column("a", "Int") >> >> }

ReadAny ==
    /\ phase = "started"
    /\ Len(query_objects) < MaxQueryObjects
    /\ \E lock_fails, plan_initialized \in BOOLEAN, headers \in ReadHeaderPairs :
           /\ lock_fails => (plan_initialized /\ headers[1] = headers[2])
           /\ Read(lock_fails, plan_initialized, headers[1], headers[2])

\* Lines 330-340: write, the sink of getTargetTable(); `written` are the rows
\* the caller pushes through the sink. lock_fails: the shared lock is not
\* acquired within lock_acquire_timeout.
Write(written, lock_fails) ==
    /\ phase = "started"
    /\ Len(query_objects) < MaxQueryObjects
    /\ LET target == tryGetTable(cat_tables, target_table_id)
       IN  IF target = "none"
           THEN /\ last_error' = "UNKNOWN_TABLE"
                /\ trace' = << >>
                /\ UNCHANGED << table_rows, query_objects >>
           ELSE IF ~CallsTargetAfterLock(lock_fails)
           THEN /\ last_error' = "DEADLOCK_AVOIDED"
                /\ trace' = << [Ev("lockForShare", target_table_id) EXCEPT !.threw = TRUE] >>
                /\ UNCHANGED << table_rows, query_objects >>
           ELSE /\ last_error' = ""
                /\ trace' = (IF lock_fails
                             THEN << [Ev("lockForShare", target_table_id) EXCEPT
                                         !.threw = TRUE] >>
                             ELSE << Ev("lockForShare", target_table_id) >>)
                            \o << [Ev("write", target_table_id) EXCEPT
                                      !.to = cat_tables[target]] >>
                            \o (IF LockIsAttached("sink", TRUE)
                                THEN << Ev("addTableLock", target_table_id) >> ELSE << >>)
                /\ table_rows' = [table_rows EXCEPT ![target] = @ \cup written]
                /\ query_objects' =
                     Append(query_objects,
                            QueryObject("sink", target, FALSE, LockIsAttached("sink", TRUE)))
    /\ last_op' = "write"
    /\ UNCHANGED thread_vars
    /\ last_args' = [written |-> written, lock_fails |-> lock_fails]
    /\ UNCHANGED << phase, storage_id, has_inner_target_table, has_scratch_table,
                    target_table_id, scratch_table_id, scratch_table_is_known_to_be_empty,
                    refresher, refresh_on_start, metadata, cat_tables, cat_deps,
                    cat_metadata, max_views, refresh_state, insert_query, failed_alters >>

WriteAny ==
    /\ phase = "started"
    /\ Len(query_objects) < MaxQueryObjects
    /\ \E written \in SUBSET Rows, lock_fails \in BOOLEAN :
           written # {} /\ Write(written, lock_fails)

\* The caller is done with a plan or a sink: the object goes, and the lock it
\* holds with it.
DestroyQueryObject(i) ==
    /\ i \in 1..Len(query_objects)
    /\ query_objects' = SubSeq(query_objects, 1, i - 1)
                        \o SubSeq(query_objects, i + 1, Len(query_objects))
    /\ last_op' = "destroy"
    /\ last_error' = ""
    /\ last_args' = [object |-> query_objects[i]]
    /\ trace' = << >>
    /\ UNCHANGED thread_vars
    /\ UNCHANGED << phase, storage_id, has_inner_target_table, has_scratch_table,
                    target_table_id, scratch_table_id, scratch_table_is_known_to_be_empty,
                    refresher, refresh_on_start, metadata, cat_tables, table_rows, cat_deps,
                    cat_metadata, max_views, refresh_state, insert_query, failed_alters >>

DestroyQueryObjectAny ==
    /\ query_objects # << >>
    /\ \E i \in 1..Len(query_objects) : DestroyQueryObject(i)

\* Lines 295-323 on their own: the reconciliation of two headers.
ReconcileAnyHeaders ==
    /\ phase = "none" /\ last_op = "none"
    /\ \E mv_header, target_header \in Headers :
           /\ last_args' = [mv_header |-> mv_header, target_header |-> target_header,
                            headers |-> ReconcileHeaders(mv_header, target_header)]
    /\ last_op' = "reconcileHeaders"
    /\ last_error' = ""
    /\ trace' = << >>
    /\ UNCHANGED << thread_vars, query_objects >>
    /\ UNCHANGED << phase, storage_id, has_inner_target_table, has_scratch_table,
                    target_table_id, scratch_table_id, scratch_table_is_known_to_be_empty,
                    refresher, refresh_on_start, metadata, cat_tables, table_rows, cat_deps,
                    cat_metadata, max_views, refresh_state, insert_query, failed_alters >>

\* Line 386: whether truncate issues the TRUNCATE of the target.
TruncateIsForwarded_Always(has_inner) == TRUE

TruncateIsForwarded(has_inner) == has_inner

\* Lines 384-388: truncate. The TRUNCATE query is synchronous and throws when
\* the target does not resolve.
Truncate ==
    /\ phase = "started"
    /\ LET target == tryGetTable(cat_tables, target_table_id)
       IN  IF ~TruncateIsForwarded(has_inner_target_table)
           THEN /\ last_error' = ""
                /\ trace' = << >>
                /\ UNCHANGED table_rows
           ELSE IF target = "none"
           THEN /\ last_error' = "UNKNOWN_TABLE"
                /\ trace' = << [Ev("truncate", target_table_id) EXCEPT
                                   !.sync = TRUE, !.threw = TRUE] >>
                /\ UNCHANGED table_rows
           ELSE /\ last_error' = ""
                /\ trace' = << [Ev("truncate", target_table_id) EXCEPT
                                   !.sync = TRUE, !.to = cat_tables[target]] >>
                /\ table_rows' = [table_rows EXCEPT ![target] = {}]
    /\ last_op' = "truncate"
    /\ UNCHANGED << thread_vars, query_objects >>
    /\ last_args' = [rows_before |-> table_rows]
    /\ UNCHANGED << phase, storage_id, has_inner_target_table, has_scratch_table,
                    target_table_id, scratch_table_id, scratch_table_is_known_to_be_empty,
                    refresher, refresh_on_start, metadata, cat_tables, cat_deps,
                    cat_metadata, max_views, refresh_state, insert_query, failed_alters >>

\* The getters of lines 648-651, 688-723 and 737-742.
Getters ==
    {"getVirtuals", "supportsBackupPartition", "totalRows", "totalBytes",
     "totalBytesUncompressed", "isRemote"}

\* What a getter returns: the error it throws ("" if none), the table it
\* delegated to ("none" when it answers empty or false by itself) and, for the
\* totals, the number the target reports.
GetterAnswer(error, delegated_to, rows) ==
    [error |-> error, delegated_to |-> delegated_to,
     total |-> IF delegated_to = "none" THEN 0 ELSE Cardinality(rows[delegated_to])]

\* Every getter delegating whenever the target resolves and answering empty or
\* false otherwise.
GetterResult_DelegateIfExists(op, has_inner, target, rows) ==
    GetterAnswer("", target, rows)

GetterResult(op, has_inner, target, rows) ==
    IF op = "getVirtuals"
    THEN \* line 650: getTargetTable()
         IF target = "none" THEN GetterAnswer("UNKNOWN_TABLE", "none", rows)
         ELSE GetterAnswer("", target, rows)
    ELSE IF op = "supportsBackupPartition"
    THEN \* lines 690-692: getTargetTable() of an inner target, else false
         IF ~has_inner THEN GetterAnswer("", "none", rows)
         ELSE IF target = "none" THEN GetterAnswer("UNKNOWN_TABLE", "none", rows)
         ELSE GetterAnswer("", target, rows)
    ELSE IF op = "isRemote"
    THEN \* lines 739-741: tryGetTargetTable()
         GetterAnswer("", target, rows)
    ELSE \* lines 697-702, 707-712, 717-722: tryGetTargetTable() of an inner target
         IF has_inner THEN GetterAnswer("", target, rows)
         ELSE GetterAnswer("", "none", rows)

Getter(op) ==
    /\ phase = "started"
    /\ LET target == tryGetTable(cat_tables, target_table_id)
           answer == GetterResult(op, has_inner_target_table, target, table_rows)
       IN  /\ last_error' = answer.error
           /\ last_args' = [result |-> answer]
           /\ trace' = IF answer.delegated_to = "none" THEN << >>
                       ELSE << [Ev(op, target_table_id) EXCEPT
                                   !.to = cat_tables[answer.delegated_to]] >>
    /\ last_op' = op
    /\ UNCHANGED << thread_vars, query_objects >>
    /\ UNCHANGED << phase, storage_id, has_inner_target_table, has_scratch_table,
                    target_table_id, scratch_table_id, scratch_table_is_known_to_be_empty,
                    refresher, refresh_on_start, metadata, cat_tables, table_rows, cat_deps,
                    cat_metadata, max_views, refresh_state, insert_query, failed_alters >>

GetterAny ==
    /\ phase = "started"
    /\ \E op \in Getters : Getter(op)

\* StorageActionBlockType values: the refresh of views and one other.
ActionLockTypes == {"ViewRefresh", "PartsMerge"}

\* Lines 727 and 757: whether the call reaches the refresher.
ReachesRefresher_AnyType(type, has_refresher) == has_refresher

ReachesRefresher(type, has_refresher) == type = "ViewRefresh" /\ has_refresher

\* RefreshTask::stop and RefreshTask::start.
RefreshTaskStop(task) == [task EXCEPT !.state = "stopped"]
RefreshTaskStart(task) == [task EXCEPT !.state = "running"]

\* Lines 729-733: whether getActionLock answers with the target's action lock.
DelegatesActionLock_IfExists(has_inner, target) == target # "none"

DelegatesActionLock(has_inner, target) == has_inner /\ target # "none"

\* Lines 725-735: getActionLock.
GetActionLock(type) ==
    /\ phase = "started"
    /\ refresher' = IF ReachesRefresher(type, refresher.exists)
                    THEN RefreshTaskStop(refresher) ELSE refresher
    /\ LET target == tryGetTable(cat_tables, target_table_id)
       IN  trace' = (IF ReachesRefresher(type, refresher.exists)
                     THEN << Ev("stop", storage_id) >> ELSE << >>)
                    \o (IF DelegatesActionLock(has_inner_target_table, target)
                        THEN << [Ev("getActionLock", target_table_id) EXCEPT
                                    !.to = cat_tables[target]] >>
                        ELSE << >>)
    /\ last_op' = "getActionLock"
    /\ UNCHANGED << thread_vars, query_objects >>
    /\ last_error' = ""
    /\ last_args' = [type |-> type]
    /\ UNCHANGED << phase, storage_id, has_inner_target_table, has_scratch_table,
                    target_table_id, scratch_table_id, scratch_table_is_known_to_be_empty,
                    refresh_on_start, metadata, cat_tables, table_rows, cat_deps,
                    cat_metadata, max_views, refresh_state, insert_query, failed_alters >>

GetActionLockAny ==
    /\ phase = "started"
    /\ \E type \in ActionLockTypes : GetActionLock(type)

\* Lines 755-759: onActionLockRemove.
OnActionLockRemove(action_type) ==
    /\ phase = "started"
    /\ refresher' = IF ReachesRefresher(action_type, refresher.exists)
                    THEN RefreshTaskStart(refresher) ELSE refresher
    /\ trace' = IF ReachesRefresher(action_type, refresher.exists)
                THEN << Ev("start", storage_id) >> ELSE << >>
    /\ last_op' = "onActionLockRemove"
    /\ UNCHANGED << thread_vars, query_objects >>
    /\ last_error' = ""
    /\ last_args' = [type |-> action_type]
    /\ UNCHANGED << phase, storage_id, has_inner_target_table, has_scratch_table,
                    target_table_id, scratch_table_id, scratch_table_is_known_to_be_empty,
                    refresh_on_start, metadata, cat_tables, table_rows, cat_deps,
                    cat_metadata, max_views, refresh_state, insert_query, failed_alters >>

OnActionLockRemoveAny ==
    /\ phase = "started"
    /\ \E action_type \in ActionLockTypes : OnActionLockRemove(action_type)

(* ---------------------------- inner names ----------------------------- *)

\* The ids generateInnerTableName is applied to.
MintedIDs == [database_name : ViewDatabases, table_name : ViewNames, uuid : 0..MaxUUID]

\* Lines 57-67: two calls of generateInnerTableName, side by side.
GenerateInnerTableNames(view_id, scratch, other_id, other_scratch) ==
    /\ phase = "none" /\ last_op = "none"
    /\ last_op' = "generateInnerTableName"
    /\ UNCHANGED << thread_vars, query_objects >>
    /\ last_error' = ""
    /\ last_args' = [view_id |-> view_id, scratch |-> scratch,
                     res |-> generateInnerTableName(view_id, scratch),
                     other_id |-> other_id, other_scratch |-> other_scratch,
                     other_res |-> generateInnerTableName(other_id, other_scratch)]
    /\ trace' = << >>
    /\ UNCHANGED << phase, storage_id, has_inner_target_table, has_scratch_table,
                    target_table_id, scratch_table_id, scratch_table_is_known_to_be_empty,
                    refresher, refresh_on_start, metadata, cat_tables, table_rows, cat_deps,
                    cat_metadata, max_views, refresh_state, insert_query, failed_alters >>

GenerateInnerTableNamesAny ==
    /\ phase = "none" /\ last_op = "none"
    /\ \E view_id, other_id \in MintedIDs, scratch, other_scratch \in BOOLEAN :
           GenerateInnerTableNames(view_id, scratch, other_id, other_scratch)

(* ------------------- renameInMemory beside the getters ---------------- *)

\* Lines 572, 746, 763 and 769: std::lock_guard guard(inner_table_ids_mutex)
\* returns once no other thread holds the mutex.
lock_guard_NoWait(mutex) == TRUE

lock_guard(mutex) == mutex = "free"

\* The (database, table) pair of an inner id, and the pairs of both ids.
NamePair(id) == << id.database_name, id.table_name >>
InnerIdPairs(target, scratch) == [target |-> NamePair(target), scratch |-> NamePair(scratch)]

\* Lines 573-582: the assignments the rename makes under the mutex, in order.
InnerIdWrites(with_target, with_scratch) ==
    (IF with_target
     THEN << << "target", "database_name" >>, << "target", "table_name" >> >> ELSE << >>)
    \o (IF with_scratch
        THEN << << "scratch", "database_name" >>, << "scratch", "table_name" >> >>
        ELSE << >>)

\* The complete pairs the inner ids hold at this moment: the current ones,
\* or the old and the new ones while a rename is between its assignments.
CompleteInnerIds ==
    IF rename_thread.pc = "locked"
    THEN {rename_thread.old_ids, rename_thread.new_ids}
    ELSE {InnerIdPairs(target_table_id, scratch_table_id)}

\* Lines 544-569: renameInMemory up to the end of the rename query of the
\* inner tables. ddl_fails: the rename query throws.
RenameExecuteDDL(new_table_id, ddl_fails) ==
    /\ phase = "started"
    /\ rename_thread.pc = "idle"
    /\ ~NameTaken(cat_tables, new_table_id.database_name, new_table_id.table_name)
    /\ << new_table_id.database_name, new_table_id.table_name >>
         # << storage_id.database_name, storage_id.table_name >>
    /\ LET old_table_id == storage_id
           renames == rename_inner_tables(old_table_id, new_table_id)
           with_target == renames /\ RenamesTarget(cat_tables)
           with_scratch == renames /\ RenamesScratch(cat_tables)
           new_target_table_name == generateInnerTableName(new_table_id, FALSE)
           new_scratch_table_name == generateInnerTableName(new_table_id, TRUE)
           target_role == tryGetTable(cat_tables, target_table_id)
           scratch_role == tryGetTable(cat_tables, scratch_table_id)
           missing == with_scratch /\ scratch_role = "none"
           new_target == IF with_target
                         THEN StorageID(new_table_id.database_name, new_target_table_name)
                         ELSE target_table_id
           new_scratch == IF with_scratch
                          THEN StorageID(new_table_id.database_name, new_scratch_table_name)
                          ELSE scratch_table_id
           rename_trace ==
               (IF with_target
                THEN << [Ev("rename", target_table_id) EXCEPT !.to = new_target] >>
                ELSE << >>)
               \o (IF with_scratch
                   THEN << [Ev("rename", scratch_table_id) EXCEPT !.to = new_scratch] >>
                   ELSE << >>)
       IN  IF renames /\ (missing \/ ddl_fails)
           THEN /\ last_op' = "renameInMemory"
                /\ last_error' = IF missing THEN "UNKNOWN_TABLE" ELSE "RENAME_FAILED"
                /\ last_args' = [old_table_id |-> old_table_id,
                                 new_table_id |-> new_table_id]
                /\ trace' = rename_trace
                /\ UNCHANGED << cat_tables, rename_thread >>
           ELSE /\ cat_tables' =
                     RenamedTable(
                         RenamedTable(cat_tables,
                                      IF with_target THEN target_role ELSE "none",
                                      new_table_id.database_name, new_target_table_name),
                         IF with_scratch THEN scratch_role ELSE "none",
                         new_table_id.database_name, new_scratch_table_name)
                /\ rename_thread' =
                     [pc |-> IF renames THEN "renamed" ELSE "installed",
                      old_table_id |-> old_table_id,
                      new_table_id |-> new_table_id,
                      new_target_table_name |-> new_target_table_name,
                      new_scratch_table_name |-> new_scratch_table_name,
                      writes |-> InnerIdWrites(with_target, with_scratch),
                      old_ids |-> InnerIdPairs(target_table_id, scratch_table_id),
                      new_ids |-> InnerIdPairs(new_target, new_scratch),
                      trace |-> IF renames
                                THEN rename_trace \o << Ev("installInnerIds", old_table_id) >>
                                ELSE << >>]
                /\ UNCHANGED << last_op, last_error, last_args, trace >>
    /\ UNCHANGED << phase, storage_id, has_inner_target_table, has_scratch_table,
                    target_table_id, scratch_table_id, scratch_table_is_known_to_be_empty,
                    refresher, refresh_on_start, metadata, table_rows, cat_deps,
                    cat_metadata, max_views, refresh_state, insert_query, failed_alters,
                    inner_table_ids_mutex, reader_thread, query_objects >>

RenameExecuteDDLAny ==
    /\ phase = "started"
    /\ rename_thread.pc = "idle"
    /\ \E new_table_id \in ViewIDs, ddl_fails \in BOOLEAN :
           /\ ddl_fails => rename_inner_tables(storage_id, new_table_id)
           /\ RenameExecuteDDL(new_table_id, ddl_fails)

\* Line 572: the rename takes the mutex.
RenameLock ==
    /\ rename_thread.pc = "renamed"
    /\ lock_guard(inner_table_ids_mutex)
    /\ inner_table_ids_mutex' = "rename"
    /\ rename_thread' = [rename_thread EXCEPT !.pc = "locked"]
    /\ UNCHANGED << phase, storage_id, has_inner_target_table, has_scratch_table,
                    target_table_id, scratch_table_id, scratch_table_is_known_to_be_empty,
                    refresher, refresh_on_start, metadata, cat_tables, table_rows, cat_deps,
                    cat_metadata, max_views, refresh_state, insert_query, failed_alters,
                    last_op, last_error, last_args, trace, reader_thread, query_objects >>

\* Lines 575-576 and 580-581: the next assignment to a member of an inner id.
RenameWriteInnerId ==
    /\ rename_thread.pc = "locked"
    /\ rename_thread.writes # << >>
    /\ LET id == Head(rename_thread.writes)[1]
           member == Head(rename_thread.writes)[2]
           value == IF member = "database_name"
                    THEN rename_thread.new_table_id.database_name
                    ELSE IF id = "target" THEN rename_thread.new_target_table_name
                    ELSE rename_thread.new_scratch_table_name
       IN  /\ target_table_id' = IF id = "target"
                                 THEN [target_table_id EXCEPT ![member] = value]
                                 ELSE target_table_id
           /\ scratch_table_id' = IF id = "scratch"
                                  THEN [scratch_table_id EXCEPT ![member] = value]
                                  ELSE scratch_table_id
    /\ rename_thread' = [rename_thread EXCEPT !.writes = Tail(@)]
    /\ UNCHANGED << phase, storage_id, has_inner_target_table, has_scratch_table,
                    scratch_table_is_known_to_be_empty, refresher, refresh_on_start,
                    metadata, cat_tables, table_rows, cat_deps, cat_metadata, max_views,
                    refresh_state, insert_query, failed_alters, last_op, last_error,
                    last_args, trace, inner_table_ids_mutex, reader_thread, query_objects >>

\* Line 583: the end of the scope of the guard.
RenameUnlock ==
    /\ rename_thread.pc = "locked"
    /\ rename_thread.writes = << >>
    /\ inner_table_ids_mutex' = "free"
    /\ rename_thread' = [rename_thread EXCEPT !.pc = "installed"]
    /\ UNCHANGED << phase, storage_id, has_inner_target_table, has_scratch_table,
                    target_table_id, scratch_table_id, scratch_table_is_known_to_be_empty,
                    refresher, refresh_on_start, metadata, cat_tables, table_rows, cat_deps,
                    cat_metadata, max_views, refresh_state, insert_query, failed_alters,
                    last_op, last_error, last_args, trace, reader_thread, query_objects >>

\* Lines 586-593: the view's own id, the dependency edge, the refresher.
RenameFinish ==
    /\ rename_thread.pc = "installed"
    /\ LET old_table_id == rename_thread.old_table_id
           new_table_id == rename_thread.new_table_id
       IN  /\ storage_id' = new_table_id
           /\ cat_deps' = rename_UpdateDependency(cat_deps, metadata.select_table_id,
                                                  old_table_id, new_table_id)
           /\ refresher' = IF refresher.exists
                           THEN [refresher EXCEPT !.name = new_table_id]
                           ELSE refresher
           /\ last_args' = [old_table_id |-> old_table_id, new_table_id |-> new_table_id]
           /\ trace' = rename_thread.trace
                       \o << [Ev("renameInMemory", old_table_id) EXCEPT !.to = new_table_id],
                             [Ev("updateViewDependency", metadata.select_table_id) EXCEPT
                                 !.to = new_table_id] >>
                       \o (IF refresher.exists
                           THEN << Ev("renameRefresher", new_table_id) >> ELSE << >>)
    /\ last_op' = "renameInMemory"
    /\ last_error' = ""
    /\ rename_thread' = NoRename
    /\ UNCHANGED << phase, has_inner_target_table, has_scratch_table, target_table_id,
                    scratch_table_id, scratch_table_is_known_to_be_empty, refresh_on_start,
                    metadata, cat_tables, table_rows, cat_metadata, max_views,
                    refresh_state, insert_query, failed_alters, inner_table_ids_mutex,
                    reader_thread, query_objects >>

\* The getters that copy the inner ids out: lines 744-753, 761-765, 767-771.
IdGetters == {"getTargetTableId", "getScratchTableId", "innerTables"}

\* Lines 746, 763 and 769: the getter takes the mutex.
GetterLock(getter) ==
    /\ phase = "started"
    /\ reader_thread.pc \in {"idle", "returned"}
    /\ lock_guard(inner_table_ids_mutex)
    /\ inner_table_ids_mutex' = "getter"
    /\ reader_thread' = [pc |-> "locked", getter |-> getter,
                         target |-> << "", "" >>, scratch |-> << "", "" >>,
                         complete |-> CompleteInnerIds]
    /\ UNCHANGED << phase, storage_id, has_inner_target_table, has_scratch_table,
                    target_table_id, scratch_table_id, scratch_table_is_known_to_be_empty,
                    refresher, refresh_on_start, metadata, cat_tables, table_rows, cat_deps,
                    cat_metadata, max_views, refresh_state, insert_query, failed_alters,
                    last_op, last_error, last_args, trace, rename_thread, query_objects >>

GetterLockAny == \E getter \in IdGetters : GetterLock(getter)

\* Lines 749-752, 764 and 770: the copy of a StorageID, member after member.
GetterCopyMember ==
    /\ reader_thread.pc \in {"locked", "copying"}
    /\ reader_thread' =
         IF reader_thread.pc = "locked"
         THEN [reader_thread EXCEPT
                  !.pc = "copying",
                  !.target = << target_table_id.database_name, "" >>,
                  !.scratch = << scratch_table_id.database_name, "" >>,
                  !.complete = @ \cup CompleteInnerIds]
         ELSE [reader_thread EXCEPT
                  !.pc = "copied",
                  !.target = << @[1], target_table_id.table_name >>,
                  !.scratch = << @[1], scratch_table_id.table_name >>,
                  !.complete = @ \cup CompleteInnerIds]
    /\ UNCHANGED << phase, storage_id, has_inner_target_table, has_scratch_table,
                    target_table_id, scratch_table_id, scratch_table_is_known_to_be_empty,
                    refresher, refresh_on_start, metadata, cat_tables, table_rows, cat_deps,
                    cat_metadata, max_views, refresh_state, insert_query, failed_alters,
                    last_op, last_error, last_args, trace, inner_table_ids_mutex,
                    rename_thread, query_objects >>

\* Lines 753, 765 and 771: the getter returns and its guard leaves scope.
GetterReturn ==
    /\ reader_thread.pc = "copied"
    /\ inner_table_ids_mutex' = "free"
    /\ reader_thread' = [reader_thread EXCEPT !.pc = "returned"]
    /\ UNCHANGED << phase, storage_id, has_inner_target_table, has_scratch_table,
                    target_table_id, scratch_table_id, scratch_table_is_known_to_be_empty,
                    refresher, refresh_on_start, metadata, cat_tables, table_rows, cat_deps,
                    cat_metadata, max_views, refresh_state, insert_query, failed_alters,
                    last_op, last_error, last_args, trace, rename_thread, query_objects >>

(* ----------------------- client connection parameters ----------------- *)

\* Core/Defines.h: the default ports of the native protocol.
DBMS_DEFAULT_PORT == 9000
DBMS_DEFAULT_SECURE_PORT == 9440

\* A key of the configuration that holds an integer, or is absent.
NoInt == [present |-> FALSE, value |-> 0]
ConfigInt(value) == [present |-> TRUE, value |-> value]

\* The integers a configuration may give for a port.
ConfigInts ==
    {NoInt} \cup {ConfigInt(p + w * 65536) : p \in {8123, 8443}, w \in 0..MaxWraps}

\* The configurations of a client: the keys the connection parameters read.
Configs ==
    [secure : {"unset", "true", "false"}, no_secure : {"unset", "true", "false"},
     port : ConfigInts, tcp_port_secure : ConfigInts, tcp_port : ConfigInts]

ConnectionHosts ==
    {"localhost", "x.clickhouse.cloud", "y.clickhouse-staging.com", "clickhouse.cloud",
     ".clickhouse.cloud", "x.clickhouse.cloud.org"}

\* Poco::Util::AbstractConfiguration::getBool and getInt with a default.
getBool(flag, default) == IF flag = "unset" THEN default ELSE flag = "true"
getInt(key, default) == IF key.present THEN key.value ELSE default

\* std::string::ends_with
ends_with(str, suffix) ==
    /\ Len(str) >= Len(suffix)
    /\ SubSeq(str, Len(str) - Len(suffix) + 1, Len(str)) = suffix

\* The conversion of an int to UInt16.
UInt16(x) == x % 65536

\* Lines 28-38.
enableSecureConnection(config, connection_host) ==
    IF getBool(config.secure, FALSE) THEN TRUE
    ELSE IF getBool(config.no_secure, FALSE) THEN FALSE
    ELSE \/ ends_with(connection_host, ".clickhouse.cloud")
         \/ ends_with(connection_host, ".clickhouse-staging.com")

\* Lines 158-165.
getPortFromConfig(config, connection_host) ==
    LET is_secure == enableSecureConnection(config, connection_host)
    IN  UInt16(getInt(config.port,
                      getInt(IF is_secure THEN config.tcp_port_secure ELSE config.tcp_port,
                             IF is_secure THEN DBMS_DEFAULT_SECURE_PORT
                             ELSE DBMS_DEFAULT_PORT)))

\* Lines 55-67 and 151-156: what the constructors set of the connection.
\* port_: the port the caller gives, NoInt when the caller leaves it to the
\* configuration.
ConnectionParameters(config, host_, port_) ==
    [host |-> host_,
     port |-> IF port_.present THEN port_.value ELSE getPortFromConfig(config, host_),
     security |-> IF enableSecureConnection(config, host_) THEN "Enable" ELSE "Disable"]

\* The construction of the connection parameters of a client.
ConstructConnectionParameters(config, host_, port_) ==
    /\ phase = "none"
    /\ last_op = "none"
    /\ last_op' = "ConnectionParameters"
    /\ last_error' = ""
    /\ last_args' = [config |-> config, host_ |-> host_, port_ |-> port_,
                     port_from_config |-> getPortFromConfig(config, host_),
                     connection |-> ConnectionParameters(config, host_, port_)]
    /\ UNCHANGED << phase, storage_id, has_inner_target_table, has_scratch_table,
                    target_table_id, scratch_table_id, scratch_table_is_known_to_be_empty,
                    refresher, refresh_on_start, metadata, cat_tables, table_rows, cat_deps,
                    cat_metadata, max_views, refresh_state, insert_query, failed_alters,
                    trace, thread_vars, query_objects >>

ConstructConnectionParametersAny ==
    /\ phase = "none"
    /\ last_op = "none"
    /\ \E config \in Configs, host_ \in ConnectionHosts, port_ \in {NoInt, ConfigInt(8443)} :
           ConstructConnectionParameters(config, host_, port_)

(* --------------------------- specifications --------------------------- *)

\* Construction on every query, then startup, shutdown and drop.
Next ==
    \/ ConstructFrom({x \in CreateQueries : WellFormedQuery(x)}, {{}})
    \/ Startup
    \/ Shutdown
    \/ DropAny

Spec == Init /\ [][Next]_vars

\* Queries the constructor accepts apart from the limit on dependent views,
\* with one engine and at most the UUIDs the inner tables need.
RefreshableQueries ==
    {q \in CreateQueries :
        /\ WellFormedQuery(q)
        /\ q.select /\ q.refresh_strategy.present /\ ~q.is_create_empty
        /\ q.select_table_id = SrcB
        /\ q.to_table_id \in {EmptyID, ExtTableID}
        /\ q.storage \in {NoStorage, Storage("MergeTree", FALSE)}
        /\ q.to_inner_uuid \in {<< >>, <<2>>, <<2, 3>>}}

\* The refresh cycle of a constructed and started refreshable view.
NextRefresh ==
    \/ ConstructFrom(RefreshableQueries, SUBSET Rows)
    \/ Startup
    \/ PrepareRefreshAny
    \/ ExecuteInsertAny
    \/ TransferRefreshedDataAny

SpecRefresh == Init /\ [][NextRefresh]_vars

\* Queries with one engine and no TO INNER UUID.
LifecycleQueries ==
    {q \in CreateQueries :
        /\ WellFormedQuery(q)
        /\ q.select /\ ~q.is_create_empty
        /\ q.to_table_id \in {EmptyID, ExtTableID}
        /\ q.storage \in {NoStorage, Storage("MergeTree", FALSE)}
        /\ q.to_inner_uuid = << >>}

\* The views whose whole life is followed: plain ones and refreshable ones
\* that append; the views with a scratch table are followed under the other
\* specifications.
WholeLifeQueries ==
    {q \in LifecycleQueries : q.refresh_strategy = NoRefresh \/ q.refresh_strategy.append}

\* The life of a view: construction, startup, alters and renames, shutdown and drop.
NextLifecycle ==
    \/ ConstructFrom(WholeLifeQueries, {{}})
    \/ Startup
    \/ AlterAny
    \/ RenameInMemoryAny
    \/ Shutdown
    \/ DropAny

SpecLifecycle == Init /\ [][NextLifecycle]_vars

\* Views whose alters are studied on their own: with and without a refresh
\* strategy, with an inner or an external target.
AlterQueries == {q \in LifecycleQueries : q.select_table_id # EmptyID}

\* A started view and the ALTER queries on it.
NextAlter ==
    \/ ConstructFrom(AlterQueries, {{}})
    \/ Startup
    \/ AlterQueryCheck
    \/ AlterQueryApply

SpecAlter == Init /\ [][NextAlter]_vars

\* Views whose forwarded operations are studied: with an inner or an external
\* target, with and without a refresh strategy.
FacadeQueries == {q \in LifecycleQueries : q.select_table_id = SrcA}

\* A started view and the operations it forwards to its target.
NextFacade ==
    \/ ConstructFrom(FacadeQueries, {{}})
    \/ Startup
    \/ WriteAny
    \/ ForwardStatementAny
    \/ Truncate
    \/ GetterAny
    \/ GetActionLockAny
    \/ OnActionLockRemoveAny

SpecFacade == Init /\ [][NextFacade]_vars

\* The inner names of every id, two calls at a time.
NextNames == GenerateInnerTableNamesAny

SpecNames == Init /\ [][NextNames]_vars

\* Reads and writes of a started view, and the ends of the plans and sinks
\* they returned.
NextReadWrite ==
    \/ ConstructFrom(FacadeQueries, {{}})
    \/ Startup
    \/ ReadAny
    \/ WriteAny
    \/ DestroyQueryObjectAny

SpecReadWrite == Init /\ [][NextReadWrite]_vars

\* The reconciliation of every pair of headers.
NextHeaders == ReconcileAnyHeaders

SpecHeaders == Init /\ [][NextHeaders]_vars

\* Views under two names, one before and one after the names of its inner
\* tables, and the DDL they issue on their inner tables.
GuardQueries == {q \in LifecycleQueries : q.select_table_id = SrcA}

NextGuard ==
    \/ ConstructAs({"v", "-v"}, GuardQueries, {{}})
    \/ Startup
    \/ Truncate
    \/ RenameInMemoryAny
    \/ DropAny

SpecGuard == Init /\ [][NextGuard]_vars

\* A started view, one thread inside renameInMemory and one inside a getter
\* of the inner ids, every step of one interleaved with the steps of the other.
NextConcurrent ==
    \/ ConstructFrom(GuardQueries, {{}})
    \/ Startup
    \/ RenameExecuteDDLAny
    \/ RenameLock
    \/ RenameWriteInnerId
    \/ RenameUnlock
    \/ RenameFinish
    \/ GetterLockAny
    \/ GetterCopyMember
    \/ GetterReturn

SpecConcurrent == Init /\ [][NextConcurrent]_vars

\* The connection parameters of every configuration and host.
NextConnection == ConstructConnectionParametersAny

SpecConnection == Init /\ [][NextConnection]_vars

(* ------------------------------- claims ------------------------------- *)

HasEvent(kind) == \E i \in 1..Len(trace) : trace[i].kind = kind

\* C1: on a view with a scratch table, over refresh cycles (prepareRefresh, the
\* insert it returns, transferRefreshedData, each succeeding or failing), the rows
\* of the target table change only in a step that is a successful
\* transferRefreshedData.
C1_TargetChangesOnlyInTransfer ==
    [][ ( /\ phase = "started"
          /\ has_scratch_table
          /\ RowsOf(cat_tables', table_rows', target_table_id')
               # RowsOf(cat_tables, table_rows, target_table_id) )
        => last_op' = "transfer_ok" ]_vars

\* A successful transfer has put rows into the target of a view with a scratch.
C1_Witness ==
    /\ phase = "started" /\ has_scratch_table
    /\ last_op = "transfer_ok"
    /\ RowsOf(cat_tables, table_rows, target_table_id) # {}

\* C4: on a view with a scratch table the flag scratch_table_is_known_to_be_empty
\* is true right after a successful transferRefreshedData, false right after a
\* prepareRefresh that returned an insert query, and false right after a
\* transferRefreshedData that failed.
C4_FlagFollowsCycle ==
    has_scratch_table =>
        /\ last_op = "transfer_ok" => scratch_table_is_known_to_be_empty
        /\ (last_op = "prepareRefresh" /\ last_error = "")
              => ~scratch_table_is_known_to_be_empty
        /\ last_op = "transfer_failed" => ~scratch_table_is_known_to_be_empty

\* A full cycle has ended in a successful transfer with the flag set.
C4_Witness ==
    /\ has_scratch_table /\ last_op = "transfer_ok"
    /\ scratch_table_is_known_to_be_empty
    /\ RowsOf(cat_tables, table_rows, target_table_id) # {}

\* C5: a prepareRefresh that returns has the scratch (if the view has one, else
\* the target) as the destination of its insert query; it truncates the scratch,
\* after locking it exclusively and before it returns the query, exactly when
\* the view has a scratch and the flag was false; so it truncates whenever it
\* follows a failed insert or a failed transfer. A prepareRefresh that throws
\* returns no insert query.
C5_PrepareRefresh ==
    last_op = "prepareRefresh" =>
        LET dest == IF has_scratch_table THEN scratch_table_id ELSE target_table_id
        IN  IF last_error = ""
            THEN /\ insert_query = dest
                 /\ trace[Len(trace)] = Ev("insert_query", dest)
                 /\ HasEvent("truncate") <=> (has_scratch_table /\ ~last_args.known_empty)
                 /\ HasEvent("truncate") =>
                       /\ trace = << Ev("lockExclusively", scratch_table_id),
                                     Ev("truncate", scratch_table_id),
                                     Ev("insert_query", dest) >>
                       /\ RowsOf(cat_tables, table_rows, scratch_table_id) = {}
                 /\ (has_scratch_table /\ last_args.after \in {"insert_failed", "transfer_failed"})
                       => HasEvent("truncate")
            ELSE ~HasEvent("insert_query") /\ ~HasEvent("truncate")

\* A prepareRefresh right after a failed insert has truncated the scratch.
C5_Witness ==
    /\ last_op = "prepareRefresh" /\ last_error = ""
    /\ has_scratch_table
    /\ last_args.after = "insert_failed"
    /\ HasEvent("truncate")

\* The tables the last handler created, and those it issued a drop for, in order.
CreatedTables == SelectSeq(trace, LAMBDA e : e.kind = "create" /\ ~e.threw)
IssuedDrops == SelectSeq(trace, LAMBDA e : e.kind = "drop")
ConstructionFailedInCreate ==
    /\ last_op = "construct" /\ phase = "failed"
    /\ \E i \in 1..Len(trace) : trace[i].kind = "create" /\ trace[i].threw

\* C2 as stated: after a construction that failed while creating inner tables,
\* a drop has been issued for each created table and the catalog holds none of
\* them.
C2_Original ==
    ConstructionFailedInCreate =>
        /\ Len(IssuedDrops) = Len(CreatedTables)
        /\ \A i \in 1..Len(CreatedTables) :
              /\ IssuedDrops[i].id = CreatedTables[i].to
              /\ tryGetTable(cat_tables, CreatedTables[i].to) = "none"

\* C2, amended: after a construction with attach=false that failed while
\* creating inner tables, a drop has been issued for each created table, in the
\* order of creation, and the catalog holds none of those whose drop did not
\* throw; when the target's create succeeded and the scratch's threw, exactly
\* one drop was issued, for the target.
C2_RollbackDropsCreated ==
    ConstructionFailedInCreate =>
        /\ ~last_args.attach_
        /\ Len(IssuedDrops) = Len(CreatedTables)
        /\ \A i \in 1..Len(CreatedTables) :
              /\ IssuedDrops[i].id = CreatedTables[i].to
              /\ ~IssuedDrops[i].threw => tryGetTable(cat_tables, CreatedTables[i].to) = "none"
        /\ (Len(CreatedTables) = 1 /\ has_inner_target_table /\ has_scratch_table)
              => /\ Len(IssuedDrops) = 1
                 /\ IssuedDrops[1].id = target_table_id
                 /\ target_table_id.table_name = generateInnerTableName(storage_id, FALSE)

\* The target was created, the scratch's create threw, and the target's drop
\* went through.
C2_Witness ==
    /\ ConstructionFailedInCreate
    /\ Len(CreatedTables) = 1
    /\ Len(IssuedDrops) = 1 /\ ~IssuedDrops[1].threw
    /\ cat_tables["target"] = NoTable

\* C3: when an inner create fails in the constructor, the error that leaves the
\* constructor is the create's error, also when a rollback drop throws; a
\* rollback drop that throws is logged, and a drop is still issued for every
\* created table.
C3_OriginalErrorPropagates ==
    ConstructionFailedInCreate =>
        /\ last_error = "CREATE_FAILED"
        /\ Len(IssuedDrops) = Len(CreatedTables)
        /\ \A i \in 1..Len(trace) :
              (trace[i].kind = "drop" /\ trace[i].threw)
                 => /\ i < Len(trace)
                    /\ trace[i + 1] = Ev("log", trace[i].id)

\* A rollback drop threw during a failed construction.
C3_Witness ==
    /\ ConstructionFailedInCreate
    /\ \E i \in 1..Len(trace) : trace[i].kind = "drop" /\ trace[i].threw
    /\ last_error = "CREATE_FAILED"

\* The create-query the constructor clones for the scratch.
TargetCreateQueryOf(args) ==
    IF needsInnerTargetTable(args.query)
    THEN CreateQuery("table", args.query.storage, args.query.columns)
    ELSE args.ext_query

\* C9: inner tables are created only by a construction with attach=false; a
\* construction that succeeds with attach=false has executed one create per
\* needed inner table, the target's before the scratch's, the scratch's with
\* the engine and columns of the target's create-query; a construction with
\* attach=true executes no create and no drop, leaves the catalog as it was and
\* binds the inner identities.
C9_InnerTablesCreatedOnce ==
    /\ (HasEvent("create") => (last_op = "construct" /\ ~last_args.attach_))
    /\ (last_op = "construct" /\ last_args.attach_) =>
          /\ trace = << >>
          /\ cat_tables = last_args.tables
          /\ phase = "constructed" =>
                /\ has_inner_target_table =>
                      /\ target_table_id.database_name = storage_id.database_name
                      /\ target_table_id.table_name = generateInnerTableName(storage_id, FALSE)
                /\ has_scratch_table =>
                      /\ scratch_table_id.database_name = storage_id.database_name
                      /\ scratch_table_id.table_name = generateInnerTableName(storage_id, TRUE)
    /\ (last_op = "construct" /\ phase = "constructed" /\ ~last_args.attach_) =>
          LET n == (IF has_inner_target_table THEN 1 ELSE 0)
                   + (IF has_scratch_table THEN 1 ELSE 0)
              tq == TargetCreateQueryOf(last_args)
          IN  /\ Len(trace) = n
              /\ \A i \in 1..n : trace[i].kind = "create" /\ ~trace[i].threw
              /\ has_inner_target_table =>
                    /\ trace[1].to = target_table_id
                    /\ trace[1].id.table_name = generateInnerTableName(storage_id, FALSE)
                    /\ cat_tables["target"] = target_table_id
              /\ has_scratch_table =>
                    /\ trace[n].to = scratch_table_id
                    /\ trace[n].id.table_name = generateInnerTableName(storage_id, TRUE)
                    /\ cat_tables["scratch"] = scratch_table_id
                    /\ trace[n].engine = tq.storage.engine
                    /\ trace[n].partition_by = tq.storage.partition_by
                    /\ trace[n].columns = tq.columns

\* A construction with attach=false has created the target and then the scratch.
C9_Witness ==
    /\ last_op = "construct" /\ phase = "constructed" /\ ~last_args.attach_
    /\ has_inner_target_table /\ has_scratch_table
    /\ Len(trace) = 2
    /\ trace[1].to = target_table_id /\ trace[2].to = scratch_table_id

\* The dependency edges the catalog holds for this view, under any identity it
\* has had.
ViewEdges == {e \in cat_deps : e[2] # OtherViewID}

\* C6: while the view is started, the catalog's dependency edges for the view
\* are exactly the edge from the source table of the in-memory SELECT to the
\* view's current storage id (none when the SELECT has no source table), after
\* any alters, failed ones included, and renames.
C6_DependenciesMatchSelect ==
    phase = "started" =>
        ViewEdges = IF IsEmptyID(metadata.select_table_id) THEN {}
                    ELSE {<< metadata.select_table_id, storage_id >>}

\* C7: when max_materialized_views_count_for_table is not zero, no source table
\* has more dependent views in the catalog than that maximum, and a construction
\* that finds the count at the maximum fails (TooManyMaterializedViews once the
\* checks before it pass).
C7_DependentViewsWithinMaximum ==
    /\ max_views # 0 =>
          \A source \in Sources : DependentViewsCount(cat_deps, source) <= max_views
    /\ (/\ last_op = "construct"
        /\ TooManyViews(last_args.query.select_table_id, cat_deps, max_views)) =>
          /\ phase = "failed"
          /\ last_error \in {"TOO_MANY_MATERIALIZED_VIEWS", "INCORRECT_QUERY"}

\* C8: after shutdown or drop of a started view the catalog holds no dependency
\* edge to the view.
C8_NoEdgeAfterShutdown ==
    phase \in {"shutdown", "dropped"} => ViewEdges = {}

\* StorageID equality: by name, or by UUID when both have one.
SameTable(id, other) ==
    \/ id.database_name = other.database_name /\ id.table_name = other.table_name
    \/ hasUUID(id) /\ id.uuid = other.uuid

\* C10: a construction whose TO table has the view's name, or whose TO INNER
\* UUID list holds the view's UUID, fails without creating an inner table, with
\* BadArguments when the checks before it pass; and in every state of a
\* constructed view neither inner identity is the view's own storage id.
C10_NeverPointsAtItself ==
    /\ (last_op = "construct" /\ point_to_itself(last_args.query, last_args.table_id_)) =>
          /\ phase = "failed"
          /\ last_error \in {"BAD_ARGUMENTS", "INCORRECT_QUERY", "TOO_MANY_MATERIALIZED_VIEWS"}
          /\ ~HasEvent("create")
    /\ phase \in {"constructed", "started", "shutdown", "dropped"} =>
          /\ ~SameTable(target_table_id, storage_id)
          /\ ~SameTable(scratch_table_id, storage_id)

\* The construction that has just run read a TO INNER UUID list whose length
\* differs from needsInnerTables().
ConstructedWithUUIDCountMismatch ==
    /\ last_op = "construct"
    /\ Len(last_args.query.to_inner_uuid) # needsInnerTables(last_args.query)

\* The checks of the constructor that come before the TO INNER UUID check pass.
EarlierChecksPass ==
    /\ last_args.query.select
    /\ needsInnerTargetTable(last_args.query) => last_args.query.storage.present
    /\ ~TooManyViews(last_args.query.select_table_id, cat_deps, max_views)
    /\ ~point_to_itself(last_args.query, last_args.table_id_)

\* C11 as stated: a construction whose TO INNER UUID list has another length
\* than needsInnerTables() fails (with IncorrectQuery once the checks before it
\* pass).
C11_Original ==
    ConstructedWithUUIDCountMismatch =>
        /\ phase = "failed"
        /\ EarlierChecksPass => last_error = "INCORRECT_QUERY"

\* C11, amended: a construction whose TO INNER UUID list is not empty and has
\* another length than needsInnerTables() fails, with IncorrectQuery once the
\* checks before it pass; an empty list is accepted whatever the view needs;
\* after a construction with a non-empty list that succeeded, the counts
\* agree, the first UUID is the UUID of an inner target and the last UUID is
\* the UUID of the scratch.
C11_InnerUUIDs ==
    last_op = "construct" =>
        LET uuids == last_args.query.to_inner_uuid
        IN  /\ (ConstructedWithUUIDCountMismatch /\ uuids # << >>) =>
                  /\ phase = "failed"
                  /\ ~HasEvent("create")
                  /\ EarlierChecksPass => last_error = "INCORRECT_QUERY"
            /\ (ConstructedWithUUIDCountMismatch /\ uuids = << >> /\ EarlierChecksPass) =>
                  last_error # "INCORRECT_QUERY"
            /\ (phase = "constructed" /\ uuids # << >>) =>
                  /\ Len(uuids) = needsInnerTables(last_args.query)
                  /\ has_inner_target_table => target_table_id.uuid = uuids[1]
                  /\ has_scratch_table => scratch_table_id.uuid = uuids[Len(uuids)]
                  /\ ~has_inner_target_table => target_table_id = last_args.query.to_table_id

\* A view with an inner target and a scratch was constructed from two UUIDs.
C11_Witness ==
    /\ last_op = "construct" /\ phase = "constructed"
    /\ Len(last_args.query.to_inner_uuid) = 2
    /\ has_inner_target_table /\ has_scratch_table
    /\ target_table_id.uuid = last_args.query.to_inner_uuid[1]
    /\ scratch_table_id.uuid = last_args.query.to_inner_uuid[2]

\* The construction that has just run had attach=false, needed a scratch and
\* reached the checks of the scratch's create-query (lines 183-208).
ReachedScratchChecks ==
    /\ last_op = "construct" /\ ~last_args.attach_
    /\ needsScratchTable(last_args.query)
    /\ EarlierChecksPass
    /\ ~(last_args.query.to_inner_uuid # << >> /\ ConstructedWithUUIDCountMismatch)
    /\ ~needsInnerTargetTable(last_args.query)
          => tryGetTable(last_args.tables, last_args.query.to_table_id) # "none"

\* The first of the reasons of lines 183-208 that a scratch create-query meets,
\* "accepted" when it meets none.
ScratchRejection(cq) ==
    IF cq.kind # "table" THEN "dictionary or view"
    ELSE IF ~cq.storage.present \/ cq.storage.engine = "" THEN "no ENGINE"
    ELSE IF cq.storage.engine \notin {"MergeTree", "ReplicatedMergeTree", "Log"}
    THEN "unregistered engine"
    ELSE IF cq.storage.engine = "Log" THEN "engine cannot move data"
    ELSE IF cq.storage.partition_by THEN "partitioned"
    ELSE IF cq.storage.engine = "ReplicatedMergeTree" THEN "replicated"
    ELSE "accepted"

\* C12 as stated: such a construction is rejected before any inner table is
\* created, with LogicalError for a missing ENGINE, UnknownStorage for an
\* unregistered engine, BadArguments for an engine that cannot move data and
\* NotImplemented for a partitioned or replicated engine.
C12_Original ==
    ReachedScratchChecks =>
        LET why == ScratchRejection(TargetCreateQueryOf(last_args))
        IN  why # "accepted" =>
               /\ phase = "failed" /\ ~HasEvent("create")
               /\ why = "no ENGINE" => last_error = "LOGICAL_ERROR"
               /\ why = "unregistered engine" => last_error = "UNKNOWN_STORAGE"
               /\ why = "engine cannot move data" => last_error = "BAD_ARGUMENTS"
               /\ why \in {"partitioned", "replicated"} => last_error = "NOT_IMPLEMENTED"

\* C12, amended: such a construction is rejected before any inner table is
\* created, with BadArguments for a dictionary or view, LogicalError for a
\* missing ENGINE, UnknownStorage for an unregistered engine and NotImplemented
\* for an engine that cannot move data, a partitioned or a replicated engine;
\* a create-query that meets none of these is not rejected by these checks.
C12_ScratchEngineRejected ==
    ReachedScratchChecks =>
        LET why == ScratchRejection(TargetCreateQueryOf(last_args))
        IN  /\ why # "accepted" => (phase = "failed" /\ ~HasEvent("create"))
            /\ why = "dictionary or view" => last_error = "BAD_ARGUMENTS"
            /\ why = "no ENGINE" => last_error = "LOGICAL_ERROR"
            /\ why = "unregistered engine" => last_error = "UNKNOWN_STORAGE"
            /\ why \in {"engine cannot move data", "partitioned", "replicated"}
                  => last_error = "NOT_IMPLEMENTED"
            /\ why = "accepted" => last_error \in {"", "CREATE_FAILED"}

\* A scratch derived from a TO table of an engine that cannot move data was
\* rejected.
C12_Witness ==
    /\ ReachedScratchChecks
    /\ ~needsInnerTargetTable(last_args.query)
    /\ ScratchRejection(TargetCreateQueryOf(last_args)) = "engine cannot move data"
    /\ phase = "failed" /\ last_error = "NOT_IMPLEMENTED"

\* The fields of the view and of the catalog, without the record of the last call.
view_state ==
    << phase, storage_id, has_inner_target_table, has_scratch_table, target_table_id,
       scratch_table_id, scratch_table_is_known_to_be_empty, refresher, refresh_on_start,
       metadata, cat_tables, table_rows, cat_deps, cat_metadata, max_views, refresh_state,
       insert_query >>

\* C13 as stated: checkAlterIsPossible accepts a command list exactly when every
\* command is a comment alter, a MODIFY QUERY, or a MODIFY REFRESH on a view
\* that has a refresher, and rejects with NotImplemented otherwise.
C13_Original ==
    last_op = "checkAlterIsPossible" =>
        LET commands == last_args.commands
            allowed(c) == \/ c.type \in {"COMMENT_TABLE", "MODIFY_QUERY"}
                          \/ c.type = "MODIFY_REFRESH" /\ refresher.exists
        IN  /\ last_error = "" <=> \A i \in 1..Len(commands) : allowed(commands[i])
            /\ last_error \in {"", "NOT_IMPLEMENTED"}

\* C13, amended: checkAlterIsPossible accepts a command list exactly when every
\* command is a comment alter, a MODIFY QUERY, or a MODIFY REFRESH on a view
\* that has a refresher and whose APPEND flag is that of the view (APPEND
\* exactly when the view has no scratch); it rejects with NotImplemented
\* otherwise, and a step that is the check changes no state of the view.
C13_CheckAlterIsPossible ==
    /\ [](last_op = "checkAlterIsPossible" =>
            LET commands == last_args.commands
                allowed(c) == \/ c.type \in {"COMMENT_TABLE", "MODIFY_QUERY"}
                              \/ /\ c.type = "MODIFY_REFRESH" /\ refresher.exists
                                 /\ c.refresh.append = ~has_scratch_table
            IN  /\ last_error = "" <=> \A i \in 1..Len(commands) : allowed(commands[i])
                /\ last_error \in {"", "NOT_IMPLEMENTED"})
    /\ [][last_op' = "checkAlterIsPossible" => view_state' = view_state]_vars

\* A two-command list with a MODIFY REFRESH that keeps APPEND was accepted on a
\* refreshable view.
C13_Witness ==
    /\ last_op = "checkAlterIsPossible" /\ last_error = ""
    /\ refresher.exists
    /\ Len(last_args.commands) = 2
    /\ last_args.commands[2].type = "MODIFY_REFRESH"

\* C14: a constructed view has a refresher exactly when its metadata holds a
\* refresh strategy, and then has_scratch_table is the negation of the
\* strategy's APPEND flag, after construction and after every alter.
C14_ScratchIffNotAppend ==
    phase \in {"constructed", "started"} =>
        /\ refresher.exists <=> metadata.refresh.present
        /\ metadata.refresh.present =>
              /\ has_scratch_table = ~metadata.refresh.append
              /\ refresher.append = metadata.refresh.append
        /\ ~metadata.refresh.present => ~has_scratch_table

\* An alter with a MODIFY REFRESH went through on a view with a scratch.
C14_Witness ==
    /\ phase = "started" /\ last_op = "alter" /\ last_error = ""
    /\ has_scratch_table
    /\ metadata.refresh.present /\ metadata.refresh.period = MaxPeriod

\* The table the view's target id resolves to in the catalog, "none" if none.
ResolvedTarget == tryGetTable(cat_tables, target_table_id)

\* C15: optimize, mutate, alterPartition, checkAlterPartitionIsPossible and
\* checkMutationIsPossible on a view with an external TO target fail with
\* IncorrectQuery and invoke nothing on the target; on a view with an inner
\* target they invoke the same operation on the table the target id resolves
\* to at the call, and surface the lookup's error when it resolves to none.
C15_ForwardedStatements ==
    last_op \in ForwardedStatements =>
        IF ~has_inner_target_table
        THEN last_error = "INCORRECT_QUERY" /\ trace = << >>
        ELSE IF ResolvedTarget = "none"
        THEN last_error = "UNKNOWN_TABLE" /\ trace = << >>
        ELSE /\ last_error = ""
             /\ Len(trace) = 1
             /\ trace[1].kind = last_op
             /\ trace[1].id = target_table_id
             /\ trace[1].to = cat_tables[ResolvedTarget]

\* A mutate on a view whose external TO table exists was refused.
C15_Witness ==
    /\ last_op = "mutate" /\ ~has_inner_target_table
    /\ ResolvedTarget = "ext"
    /\ last_error = "INCORRECT_QUERY"

\* C16 as stated: truncate is forwarded to the target only when it is inner; on
\* a view with an external TO target it fails with NotImplemented and leaves
\* the external table's rows as they were.
C16_Original ==
    last_op = "truncate" =>
        /\ HasEvent("truncate") => has_inner_target_table
        /\ ~has_inner_target_table =>
              /\ last_error = "NOT_IMPLEMENTED"
              /\ table_rows = last_args.rows_before

\* C16, amended: truncate is forwarded to the target, as a synchronous TRUNCATE
\* that empties it, exactly when the target is inner; on a view with an
\* external TO target truncate returns without error, issues nothing and
\* leaves the rows of every table as they were.
C16_Truncate ==
    last_op = "truncate" =>
        /\ HasEvent("truncate") <=> has_inner_target_table
        /\ ~has_inner_target_table =>
              /\ last_error = ""
              /\ trace = << >>
              /\ table_rows = last_args.rows_before
        /\ (has_inner_target_table /\ ResolvedTarget # "none") =>
              /\ last_error = ""
              /\ trace[1].id = target_table_id /\ trace[1].sync
              /\ table_rows = [last_args.rows_before EXCEPT ![ResolvedTarget] = {}]

\* A truncate on a view whose external TO table holds rows returned.
C16_Witness ==
    /\ last_op = "truncate" /\ ~has_inner_target_table
    /\ ResolvedTarget = "ext" /\ table_rows["ext"] # {}
    /\ last_error = ""

\* C17: after renameInMemory(new_id) completes on a view that owns inner
\* tables, the target's name is the inner name minted from new_id with
\* scratch = false and the scratch's name the one minted with scratch = true,
\* both in new_id's database, also when the inner target is missing from the
\* catalog at the rename.
RenameCompleted == last_op = "renameInMemory" /\ last_error = ""

C17_InnerNamesFollowRename ==
    RenameCompleted =>
        /\ has_inner_target_table =>
              /\ target_table_id.table_name = generateInnerTableName(storage_id, FALSE)
              /\ target_table_id.database_name = storage_id.database_name
        /\ has_scratch_table =>
              /\ scratch_table_id.table_name = generateInnerTableName(storage_id, TRUE)
              /\ scratch_table_id.database_name = storage_id.database_name

\* The same statement for the renames performed while the inner target
\* resolves in the catalog (the ones line 554 does not skip).
C17_InnerNamesFollowRenameOfPresentTarget ==
    (RenameCompleted /\ (has_inner_target_table => ResolvedTarget # "none")) =>
        C17_InnerNamesFollowRename

\* C18: on a view with a refresher getActionLock(ViewRefresh) stops the
\* refresher, and a stopped refresher stays stopped until
\* onActionLockRemove(ViewRefresh) starts it again; getActionLock and
\* onActionLockRemove with another action type never stop or start the
\* refresher, and on a view without a refresher neither touches refresh.
IsActionLockCall(op) == op \in {"getActionLock", "onActionLockRemove"}

C18_ActionLockAndRefresher ==
    /\ []((last_op = "getActionLock" /\ last_args.type = "ViewRefresh" /\ refresher.exists)
              => refresher.state = "stopped")
    /\ []((last_op = "onActionLockRemove" /\ last_args.type = "ViewRefresh"
           /\ refresher.exists) => refresher.state = "running")
    /\ [][(refresher.state = "stopped" /\ refresher'.state # "stopped")
              => (last_op' = "onActionLockRemove" /\ last_args'.type = "ViewRefresh")]_vars
    /\ [][(IsActionLockCall(last_op') /\ last_args'.type # "ViewRefresh")
              => refresher' = refresher]_vars
    /\ [][(IsActionLockCall(last_op') /\ ~refresher.exists)
              => (refresher' = refresher /\ ~HasEvent("stop")' /\ ~HasEvent("start")')]_vars

\* A refresher stopped by getActionLock(ViewRefresh) that an
\* onActionLockRemove of another type has left stopped.
C18_Witness ==
    /\ last_op = "onActionLockRemove"
    /\ last_args.type = "PartsMerge"
    /\ refresher.exists
    /\ refresher.state = "stopped"

\* C19 as stated: each of getVirtuals, totalRows, totalBytes,
\* totalBytesUncompressed, supportsBackupPartition and isRemote delegates to
\* the target whenever the target resolves in the catalog, and answers empty or
\* false without an error when it does not.
C19_Original ==
    last_op \in Getters =>
        /\ last_error = ""
        /\ last_args.result.delegated_to = ResolvedTarget

\* C19: isRemote delegates to the target whenever it resolves and answers
\* false otherwise; totalRows, totalBytes and totalBytesUncompressed delegate
\* only to an inner target that resolves and answer empty otherwise, also for
\* an external target that resolves; getVirtuals delegates to the target when
\* it resolves and throws UNKNOWN_TABLE when it does not;
\* supportsBackupPartition answers false for an external target, delegates to
\* an inner target that resolves and throws UNKNOWN_TABLE for an inner target
\* that does not.
Totals == {"totalRows", "totalBytes", "totalBytesUncompressed"}

C19_GettersByTarget ==
    last_op \in Getters =>
        LET result == last_args.result
            delegates == /\ last_error = ""
                         /\ ResolvedTarget # "none"
                         /\ result.delegated_to = ResolvedTarget
                         /\ result.total = Cardinality(table_rows[ResolvedTarget])
            answers_empty == /\ last_error = ""
                             /\ result.delegated_to = "none"
                             /\ result.total = 0
                             /\ trace = << >>
            throws == /\ last_error = "UNKNOWN_TABLE"
                      /\ result.delegated_to = "none"
                      /\ trace = << >>
        IN  /\ result.error = last_error
            /\ last_op = "isRemote" =>
                  IF ResolvedTarget # "none" THEN delegates ELSE answers_empty
            /\ last_op \in Totals =>
                  IF has_inner_target_table /\ ResolvedTarget # "none"
                  THEN delegates ELSE answers_empty
            /\ last_op = "getVirtuals" =>
                  IF ResolvedTarget # "none" THEN delegates ELSE throws
            /\ last_op = "supportsBackupPartition" =>
                  IF ~has_inner_target_table THEN answers_empty
                  ELSE IF ResolvedTarget # "none" THEN delegates ELSE throws

\* getVirtuals on a view whose inner target has disappeared.
C19_Witness ==
    /\ last_op = "getVirtuals"
    /\ has_inner_target_table
    /\ ResolvedTarget = "none"
    /\ last_error = "UNKNOWN_TABLE"

\* The inner tables of the view that resolve in the catalog, the target
\* first, as drop meets them.
ResolvingInnerTables ==
    (IF has_inner_target_table /\ tryGetTable(cat_tables, target_table_id) # "none"
     THEN << target_table_id >> ELSE << >>)
    \o (IF has_scratch_table /\ tryGetTable(cat_tables, scratch_table_id) # "none"
        THEN << scratch_table_id >> ELSE << >>)

DropRemovesEdge ==
    ~IsEmptyID(metadata.select_table_id) =>
        << metadata.select_table_id, storage_id >> \notin cat_deps'

\* C20 as stated: drop removes the source -> view edge and then issues a
\* non-synchronous drop for each inner table of the view that still resolves
\* in the catalog, never one for an external TO target, and skips an inner
\* table that no longer resolves.
C20_Original ==
    [][last_op' = "drop" =>
          /\ DropRemovesEdge
          /\ Len(trace') = Len(ResolvingInnerTables)
          /\ \A i \in 1..Len(trace') :
                /\ trace'[i].kind = "drop"
                /\ trace'[i].id = ResolvingInnerTables[i]
                /\ ~trace'[i].sync]_vars

\* C20: drop removes the source -> view edge first, so also when a drop of an
\* inner table throws afterwards; it then issues non-synchronous drops for the
\* inner tables that resolve in the catalog, the target before the scratch,
\* and stops at the first drop that throws, whose exception leaves drop with
\* the remaining inner table not dropped; it never issues a drop for an
\* external TO target, and skips an inner table that does not resolve without
\* an error.
C20_DropOfInnerTables ==
    [][last_op' = "drop" =>
          LET n == Len(trace')
          IN  /\ DropRemovesEdge
              /\ n <= Len(ResolvingInnerTables)
              /\ \A i \in 1..n :
                    /\ trace'[i].kind = "drop"
                    /\ trace'[i].id = ResolvingInnerTables[i]
                    /\ ~trace'[i].sync
                    /\ trace'[i].threw => i = n
                    /\ LET role == tryGetTable(cat_tables, trace'[i].id)
                       IN  /\ role \in {"target", "scratch"}
                           /\ cat_tables'[role] =
                                IF trace'[i].threw THEN cat_tables[role] ELSE NoTable
              /\ IF n > 0 /\ trace'[n].threw
                 THEN last_error' = "DROP_FAILED"
                 ELSE last_error' = "" /\ n = Len(ResolvingInnerTables)
              /\ cat_tables'.ext = cat_tables.ext
              /\ table_rows'.ext = table_rows.ext
              /\ \A role \in {"target", "scratch"} :
                    (\A i \in 1..n : tryGetTable(cat_tables, trace'[i].id) # role)
                        => cat_tables'[role] = cat_tables[role]]_vars

\* A drop whose drop of the inner target threw while the scratch still
\* resolved: the edge is gone and the scratch is still in the catalog.
C20_Witness ==
    /\ last_op = "drop"
    /\ last_error = "DROP_FAILED"
    /\ has_inner_target_table /\ has_scratch_table
    /\ Len(trace) = 1
    /\ trace[1].id = target_table_id
    /\ tryGetTable(cat_tables, scratch_table_id) = "scratch"
    /\ ~IsEmptyID(metadata.select_table_id)
    /\ << metadata.select_table_id, storage_id >> \notin cat_deps

\* C25 as stated: getActionLock(type) returns the target table's action lock
\* whenever the target resolves in the catalog, and an empty lock only when
\* the target has disappeared.
C25_Original ==
    last_op = "getActionLock" =>
        (HasEvent("getActionLock") <=> ResolvedTarget # "none")

\* C25: getActionLock(type) returns the target table's action lock exactly
\* when the target is inner and resolves in the catalog; it returns an empty
\* lock when the inner target has disappeared and for every external TO
\* target, also one that resolves; it raises no error in any case.
C25_ActionLockOfInnerTarget ==
    last_op = "getActionLock" =>
        /\ last_error = ""
        /\ HasEvent("getActionLock") <=> (has_inner_target_table /\ ResolvedTarget # "none")
        /\ \A i \in 1..Len(trace) :
              trace[i].kind = "getActionLock" =>
                  /\ i = Len(trace)
                  /\ trace[i].id = target_table_id
                  /\ trace[i].to = cat_tables[ResolvedTarget]

\* getActionLock on a view whose external TO target resolves: an empty lock.
C25_Witness ==
    /\ last_op = "getActionLock"
    /\ ~has_inner_target_table
    /\ ResolvedTarget = "ext"
    /\ ~HasEvent("getActionLock")

\* C24: startup registers the source -> view edge when the SELECT has a
\* source table, then, if a refresher exists, calls initializeAndStart and
\* after it run exactly when the view was constructed with attach = false and
\* is_create_empty = false; a re-attached view or one created EMPTY never
\* runs a refresh from startup, and a view without a refresh strategy has no
\* refresher.
StartupSteps(q, attach_, view_id) ==
    (IF ~IsEmptyID(q.select_table_id)
     THEN << "addViewDependency" >> ELSE << >>)
    \o (IF q.refresh_strategy.present THEN << "initializeAndStart" >> ELSE << >>)
    \o (IF q.refresh_strategy.present /\ ~attach_ /\ ~q.is_create_empty
        THEN << "run" >> ELSE << >>)

C24_StartupSteps ==
    [][last_op' = "startup" =>
          LET q == last_args.query
              attach_ == last_args.attach_
              steps == StartupSteps(q, attach_, storage_id)
          IN  /\ last_op = "construct"
              /\ Len(trace') = Len(steps)
              /\ \A i \in 1..Len(steps) : trace'[i].kind = steps[i]
              /\ ~IsEmptyID(q.select_table_id) =>
                    /\ << q.select_table_id, storage_id >> \in cat_deps'
                    /\ trace'[1].id = q.select_table_id
                    /\ trace'[1].to = storage_id
              /\ refresher'.exists <=> q.refresh_strategy.present
              /\ refresher'.exists =>
                    /\ refresher'.state = "running"
                    /\ refresher'.runs =
                         IF ~attach_ /\ ~q.is_create_empty THEN 1 ELSE 0
              /\ (attach_ \/ q.is_create_empty) => \A i \in 1..Len(trace') :
                                                       trace'[i].kind # "run"
              /\ ~q.refresh_strategy.present => refresher' = NoRefresher]_vars

\* A started view with a refresher whose startup registered the edge and
\* started the refresher without running a refresh.
C24_Witness ==
    /\ last_op = "startup"
    /\ refresher.exists
    /\ ~refresh_on_start
    /\ Len(trace) = 2
    /\ trace[1].kind = "addViewDependency"
    /\ trace[2].kind = "initializeAndStart"

\* C30: when alter fails while persisting the new metadata (alterTable
\* throws), the in-memory metadata is still the old metadata and the
\* refresher's parameters are unchanged; the in-memory metadata is swapped and
\* the refresher updated only after the persistence succeeded, so the
\* in-memory metadata is never ahead of the persisted one.
C30_MetadataAfterFailedAlter ==
    /\ [](phase = "started" => metadata = cat_metadata)
    /\ [][last_op' = "alter" =>
             LET new_metadata == ApplyAlterCommands(last_args.commands, 1, metadata)
             IN  IF last_error' # ""
                 THEN /\ metadata' = metadata
                      /\ refresher' = refresher
                      /\ cat_metadata' = cat_metadata
                 ELSE /\ cat_metadata' = new_metadata
                      /\ metadata' = new_metadata
                      /\ refresher.exists =>
                            /\ refresher'.append = new_metadata.refresh.append
                            /\ refresher'.period = new_metadata.refresh.period]_vars

\* An alter that modified the query and failed to persist: the edge has moved
\* but the metadata is the old one.
C30_Witness ==
    /\ last_op = "alter"
    /\ last_error = "ALTER_FAILED"
    /\ << metadata.select_table_id, storage_id >> \notin cat_deps
    /\ metadata = cat_metadata

\* C29: whenever scratch_table_is_known_to_be_empty is true the scratch table
\* holds no rows; the flag becomes true only at a construction that creates
\* the scratch (attach = false) and at a successful transfer; a re-attached
\* view starts with the flag false, so the rows an interrupted refresh left
\* in the scratch are truncated before the next insert and the scratch holds
\* none of them when the insert starts.
ScratchRows == RowsOf(cat_tables, table_rows, scratch_table_id)

C29_KnownEmptyMeansEmpty ==
    /\ []((phase \in {"constructed", "started"} /\ scratch_table_is_known_to_be_empty)
              => (has_scratch_table /\ ScratchRows = {}))
    /\ []((last_op = "construct" /\ phase = "constructed") =>
              (scratch_table_is_known_to_be_empty
                  <=> (~last_args.attach_ /\ has_scratch_table)))
    /\ [][(scratch_table_is_known_to_be_empty' /\ ~scratch_table_is_known_to_be_empty)
              => last_op' \in {"construct", "transfer_ok"}]_vars
    /\ []((last_op = "prepareRefresh" /\ last_error = "" /\ has_scratch_table)
              => ScratchRows = {})

\* The first prepareRefresh of a re-attached view has truncated the scratch.
C29_Witness ==
    /\ last_op = "prepareRefresh" /\ last_error = ""
    /\ has_scratch_table
    /\ last_args.after = "startup"
    /\ ~last_args.known_empty
    /\ HasEvent("truncate")
    /\ ScratchRows = {}

\* C27 as stated: generateInnerTableName(id, scratch) is ".inner", plus
\* "_scratch" when scratch, plus "_id.<uuid>" when id has a UUID and
\* ".<table name>" otherwise; the scratch = true and scratch = false results
\* of an id differ, and two different ids give different results.
InnerNameByParts(id, scratch) ==
    ".inner" \o (IF scratch THEN "_scratch" ELSE "")
             \o (IF hasUUID(id) THEN "_id." \o ToString(id.uuid) ELSE "." \o id.table_name)

C27_Original ==
    last_op = "generateInnerTableName" =>
        /\ last_args.res = InnerNameByParts(last_args.view_id, last_args.scratch)
        /\ (last_args.view_id = last_args.other_id
            /\ last_args.scratch # last_args.other_scratch)
              => last_args.res # last_args.other_res
        /\ last_args.view_id # last_args.other_id => last_args.res # last_args.other_res

\* C27: generateInnerTableName(id, scratch) is ".inner", plus "_scratch" when
\* scratch, plus "_id.<uuid>" when id has a UUID and ".<table name>"
\* otherwise; it reads nothing else of the id, the database in particular. Two
\* calls give the same name exactly when their scratch flags are equal and
\* the ids either carry the same UUID or both lack one and have the same
\* table name; so the scratch = true and scratch = false results always
\* differ, while two different ids can give the same name.
SameNamingPart(id, other_id) ==
    IF hasUUID(id) \/ hasUUID(other_id)
    THEN id.uuid = other_id.uuid
    ELSE id.table_name = other_id.table_name

C27_InnerNames ==
    last_op = "generateInnerTableName" =>
        /\ last_args.res = InnerNameByParts(last_args.view_id, last_args.scratch)
        /\ last_args.other_res = InnerNameByParts(last_args.other_id, last_args.other_scratch)
        /\ last_args.res = last_args.other_res
              <=> /\ last_args.scratch = last_args.other_scratch
                  /\ SameNamingPart(last_args.view_id, last_args.other_id)

\* Two ids without UUID, of different databases and the same table name, with
\* the same inner name.
C27_Witness ==
    /\ last_op = "generateInnerTableName"
    /\ last_args.view_id # last_args.other_id
    /\ ~hasUUID(last_args.view_id)
    /\ last_args.view_id.database_name # last_args.other_id.database_name
    /\ last_args.res = last_args.other_res

\* C23: read and write acquire the target table's shared lock before they call
\* the target's read or write; when the lock is not acquired the call fails
\* and the target's read or write is not invoked; on success the lock is
\* handed to the plan (read, when the plan is initialized) or to the sink
\* (write), which holds it for as long as it lives.
NewestQueryObject == query_objects[Len(query_objects)]

C23_SharedLockOfTarget ==
    /\ [](last_op \in {"read", "write"} =>
            /\ last_error = "" =>
                  /\ Len(trace) >= 2
                  /\ trace[1] = Ev("lockForShare", target_table_id)
                  /\ trace[2].kind = last_op
                  /\ \A i \in 2..Len(trace) : trace[i].kind # "lockForShare"
                  /\ query_objects # << >>
                  /\ NewestQueryObject.table = ResolvedTarget
            /\ (last_args.lock_fails /\ ResolvedTarget # "none") =>
                  /\ last_error = "DEADLOCK_AVOIDED"
                  /\ ~HasEvent(last_op)
                  /\ ~HasEvent("addTableLock")
            /\ (last_op = "write" /\ last_error = "") =>
                  /\ trace[Len(trace)] = Ev("addTableLock", target_table_id)
                  /\ NewestQueryObject.kind = "sink"
                  /\ NewestQueryObject.holds_lock
            /\ (last_op = "read" /\ last_error = "") =>
                  /\ NewestQueryObject.kind = "plan"
                  /\ NewestQueryObject.holds_lock = last_args.plan_initialized
                  /\ NewestQueryObject.holds_storage = last_args.plan_initialized
                  /\ HasEvent("addTableLock") <=> last_args.plan_initialized
                  /\ last_args.plan_initialized =>
                        trace[Len(trace)] = Ev("addTableLock", target_table_id)
                  /\ HasEvent("addStep") <=>
                        (last_args.plan_initialized /\ last_args.headers.converting))
    /\ [](\A i \in 1..Len(query_objects) :
            (query_objects[i].kind = "sink" \/ query_objects[i].holds_storage)
                => query_objects[i].holds_lock)
    /\ [][(last_op' \in {"read", "write"} /\ last_error' # "")
             => (query_objects' = query_objects /\ table_rows' = table_rows)]_vars

\* A read whose lock was not acquired, while an earlier sink is alive with
\* its lock.
C23_Witness ==
    /\ last_op = "read"
    /\ last_args.lock_fails
    /\ last_error = "DEADLOCK_AVOIDED"
    /\ Len(query_objects) = 1
    /\ query_objects[1].kind = "sink"
    /\ query_objects[1].holds_lock

\* C28: the reconciliation of read removes from the view's header and from
\* the target's header every column whose name is absent from the other and
\* keeps the others in their order; the two pruned headers are the same
\* whichever side is pruned first and carry the same set of column names; the
\* converting step is added exactly when the two pruned headers are not
\* structurally equal.
ColumnNamesOf(header) == {header[i].name : i \in 1..Len(header)}

C28_HeaderReconciliation ==
    last_op = "reconcileHeaders" =>
        LET mv == last_args.mv_header
            target == last_args.target_header
            res == last_args.headers
            common == ColumnNamesOf(mv) \cap ColumnNamesOf(target)
            mv_first == removeNonCommonColumns(target, mv)
            target_then == removeNonCommonColumns(mv_first, target)
        IN  /\ res.mv_header = SelectSeq(mv, LAMBDA c : c.name \in common)
            /\ res.target_header = SelectSeq(target, LAMBDA c : c.name \in common)
            /\ res.mv_header = mv_first
            /\ res.target_header = target_then
            /\ ColumnNamesOf(res.mv_header) = ColumnNamesOf(res.target_header)
            /\ res.converting <=> res.mv_header # res.target_header

\* Two headers that both lose a column and still differ in a type.
C28_Witness ==
    /\ last_op = "reconcileHeaders"
    /\ Len(last_args.headers.mv_header) < Len(last_args.mv_header)
    /\ Len(last_args.headers.target_header) < Len(last_args.target_header)
    /\ last_args.headers.mv_header # << >>
    /\ last_args.headers.converting

\* The view on whose behalf the last handler issued its DDL.
IssuingView == IF last_op = "construct" THEN last_args.table_id_ ELSE storage_id
InnerDDLKinds == {"drop", "truncate", "rename"}
IssuesInnerDDL == last_op \in {"construct", "drop", "truncate", "renameInMemory"}

\* C26 as stated: every DDL the view issues against one of its inner tables
\* (the rollback drops of the constructor, the drops of dropInnerTableIfAny,
\* the truncate, the rename of renameInMemory) is given the flag
\* may_lock_ddl_guard equal to (view qualified name < inner qualified name).
C26_Original ==
    IssuesInnerDDL =>
        \A i \in 1..Len(trace) :
            trace[i].kind \in InnerDDLKinds =>
                trace[i].may_lock_ddl_guard =
                    IF QualifiedNameLess(IssuingView, trace[i].id) THEN "true" ELSE "false"

\* C26: the drops of inner tables, those of the constructor's rollback and
\* those of dropInnerTableIfAny, are given the flag may_lock_ddl_guard equal
\* to (view qualified name < inner table qualified name); the truncate of the
\* inner target and the rename of renameInMemory are given no such flag.
C26_DropsCarryGuardFlag ==
    IssuesInnerDDL =>
        \A i \in 1..Len(trace) :
            /\ trace[i].kind = "drop" =>
                  trace[i].may_lock_ddl_guard =
                      IF QualifiedNameLess(IssuingView, trace[i].id) THEN "true" ELSE "false"
            /\ trace[i].kind \in {"truncate", "rename"} =>
                  trace[i].may_lock_ddl_guard = "unset"

\* A drop of the view a.-v, whose name comes before those of its inner tables.
C26_Witness ==
    /\ last_op = "drop"
    /\ Len(trace) = 2
    /\ trace[1].may_lock_ddl_guard = "true"
    /\ trace[2].may_lock_ddl_guard = "true"

\* C21: renameInMemory issues a rename DDL for the inner tables exactly when
\* the database changes or the old or the new view id lacks a UUID, and
\* performs its steps in this order: rename DDL for both inner tables to
\* freshly minted names, installation of the new inner ids, update of the
\* view's own storage id, update of the dependency edge from (source, old
\* view id) to (source, new view id), rename of the refresher.
RenameSteps(old_id, new_id, renamed_tables) ==
    LET renames == \/ new_id.database_name # old_id.database_name
                   \/ ~hasUUID(old_id)
                   \/ ~hasUUID(new_id)
    IN  (IF renames
         THEN [i \in 1..renamed_tables |-> "rename"] \o << "installInnerIds" >>
         ELSE << >>)
        \o << "renameInMemory", "updateViewDependency" >>
        \o (IF refresher.exists THEN << "renameRefresher" >> ELSE << >>)

OwnedInnerTables ==
    (IF has_inner_target_table THEN 1 ELSE 0) + (IF has_scratch_table THEN 1 ELSE 0)

RenameFollowsSteps(renamed_tables) ==
    LET old_id == last_args.old_table_id
        new_id == last_args.new_table_id
        steps == RenameSteps(old_id, new_id, renamed_tables)
    IN  /\ Len(trace) = Len(steps)
        /\ \A i \in 1..Len(steps) : trace[i].kind = steps[i]
        /\ \A i \in 1..Len(trace) :
              trace[i].kind = "rename" =>
                  /\ trace[i].to.database_name = new_id.database_name
                  /\ trace[i].to.table_name \in
                        {generateInnerTableName(new_id, FALSE),
                         generateInnerTableName(new_id, TRUE)}
                  /\ \A j \in 1..Len(trace) :
                        (trace[j].kind = "rename" /\ trace[j].to = trace[i].to) => i = j
        /\ storage_id = new_id
        /\ ~IsEmptyID(metadata.select_table_id) =>
              /\ << metadata.select_table_id, new_id >> \in cat_deps
              /\ new_id # old_id => << metadata.select_table_id, old_id >> \notin cat_deps
        /\ refresher.exists => refresher.name = new_id

C21_RenameSteps ==
    (RenameCompleted /\ OwnedInnerTables > 0) => RenameFollowsSteps(OwnedInnerTables)

\* The same statement for the renames performed while the inner target
\* resolves in the catalog.
C21_RenameStepsOfPresentTarget ==
    (RenameCompleted /\ OwnedInnerTables > 0
     /\ (has_inner_target_table => ResolvedTarget # "none"))
        => RenameFollowsSteps(OwnedInnerTables)

\* C22: after construction target_table_id and scratch_table_id are written
\* only while inner_table_ids_mutex is held, and they are copied out only by
\* a getter that holds the mutex; so getTargetTableId, getScratchTableId and
\* innerTables, called while renameInMemory runs, return for each inner id
\* the complete old (database, table) pair or the complete new pair, never
\* the database of one and the table name of the other.
ReturnedPairs ==
    IF reader_thread.getter = "getTargetTableId" THEN {"target"}
    ELSE IF reader_thread.getter = "getScratchTableId" THEN {"scratch"}
    ELSE {"target", "scratch"}

GetterSeesCompletePairs ==
    reader_thread.pc = "returned" =>
        \A id \in ReturnedPairs :
            \E ids \in reader_thread.complete : reader_thread[id] = ids[id]

WritesUnderMutex ==
    (phase # "none" /\ (target_table_id' # target_table_id
                        \/ scratch_table_id' # scratch_table_id))
        => (inner_table_ids_mutex = "rename" /\ inner_table_ids_mutex' = "rename")

CopiesUnderMutex ==
    (reader_thread' # reader_thread /\ reader_thread'.pc \in {"copying", "copied"})
        => (inner_table_ids_mutex = "getter" /\ inner_table_ids_mutex' = "getter")

C22_InnerIdsUnderMutex ==
    /\ [](GetterSeesCompletePairs)
    /\ [][WritesUnderMutex /\ CopiesUnderMutex]_vars

\* A getter returned the complete new pair of the target while the rename
\* that installed it has not finished yet.
C22_Witness ==
    /\ reader_thread.pc = "returned"
    /\ rename_thread.pc = "installed"
    /\ reader_thread.getter \in {"getTargetTableId", "innerTables"}
    /\ reader_thread.target = rename_thread.new_ids.target
    /\ rename_thread.new_ids.target[1] # rename_thread.old_ids.target[1]
    /\ rename_thread.new_ids.target[2] # rename_thread.old_ids.target[2]

\* C31: if the rename query that renameInMemory issues for the inner tables
\* throws, the view is left as it was: target_table_id, scratch_table_id, the
\* view's own storage id, the dependency edges of the catalog and the name of
\* the refresher keep the values they had before the rename.
RenameThrew == last_op = "renameInMemory" /\ last_error # ""

C31_FailedRenameChangesNothing ==
    [][(last_op' = "renameInMemory" /\ last_error' # "")
          => /\ target_table_id' = target_table_id
             /\ scratch_table_id' = scratch_table_id
             /\ storage_id' = storage_id
             /\ cat_deps' = cat_deps
             /\ refresher' = refresher]_vars

\* The rename query of a view with both inner tables, a source and a
\* refresher threw, after the view had been asked to move to another database.
C31_Witness ==
    /\ RenameThrew
    /\ last_error = "RENAME_FAILED"
    /\ has_inner_target_table /\ has_scratch_table
    /\ refresher.exists
    /\ Len(trace) = 2
    /\ last_args.new_table_id.database_name # last_args.old_table_id.database_name
    /\ storage_id = last_args.old_table_id
    /\ << metadata.select_table_id, storage_id >> \in cat_deps

\* C32: the connection is secure iff config 'secure' is true, or 'secure' is
\* not true, 'no-secure' is not true and the host ends with ".clickhouse.cloud"
\* or ".clickhouse-staging.com"; getPortFromConfig returns config 'port' when
\* present, else 'tcp_port_secure' for a secure connection and 'tcp_port'
\* otherwise, else the default secure or the default plain port, so the port
\* taken from the configuration matches the security mode the constructor sets.
IsConnection == last_op = "ConnectionParameters"

CloudHosts == {"x.clickhouse.cloud", "y.clickhouse-staging.com", ".clickhouse.cloud"}

SecureByConfig(config, host) ==
    \/ config.secure = "true"
    \/ /\ config.secure # "true"
       /\ config.no_secure # "true"
       /\ host \in CloudHosts

PortByConfig(config, secure) ==
    IF config.port.present THEN config.port.value
    ELSE IF secure
         THEN (IF config.tcp_port_secure.present THEN config.tcp_port_secure.value
               ELSE 9440)
         ELSE (IF config.tcp_port.present THEN config.tcp_port.value ELSE 9000)

SecurityFollowsConfig ==
    (last_args.connection.security = "Enable")
        <=> SecureByConfig(last_args.config, last_args.host_)

C32_ConnectionParameters ==
    IsConnection =>
        /\ SecurityFollowsConfig
        /\ last_args.port_from_config
             = PortByConfig(last_args.config, last_args.connection.security = "Enable")
        /\ ~last_args.port_.present =>
              last_args.connection.port = last_args.port_from_config

\* The same statement with the port of the configuration taken modulo 2^16.
C32_ConnectionParametersOfUInt16 ==
    IsConnection =>
        /\ SecurityFollowsConfig
        /\ last_args.port_from_config
             = PortByConfig(last_args.config,
                            last_args.connection.security = "Enable") % 65536
        /\ ~last_args.port_.present =>
              last_args.connection.port = last_args.port_from_config

============================================================================
